---- MODULE Spec2Model ----
(***************************************************************************)
(* The ReAct agent of langchain-go: the synchronous runner                 *)
(* (agents/runner.go), the streaming runner (agents/stream.go) and the     *)
(* action codec they share (parseLLMResponse, thoroughlyCleanJSON,         *)
(* findTool).                                                              *)
(*                                                                         *)
(* Text is a sequence of characters, each character a one-element string.  *)
(* Offsets are Go's: zero-based, s[i:j] is Slice(s, i, j).  The character  *)
(* "U+4F60" stands for a three-byte UTF-8 character, "BOM" for U+FEFF.     *)
(***************************************************************************)
EXTENDS Integers, Sequences, FiniteSets, TLC

(***************************************************************************)
(* Strings                                                                 *)
(***************************************************************************)

\* s[i:j] of Go, on characters.
Slice(s, i, j) == SubSeq(s, i + 1, j)

\* s[i:] of Go.
From(s, i) == SubSeq(s, i + 1, Len(s))

\* The UTF-8 width of a character.
Width(c) == IF c \in {"U+4F60", "BOM"} THEN 3 ELSE 1

RECURSIVE ByteLen(_)
\* len(s) of Go: the number of bytes of s.
ByteLen(s) == IF s = <<>> THEN 0 ELSE Width(Head(s)) + ByteLen(Tail(s))

\* len([]rune(s)) of Go: the number of characters of s.
RuneLen(s) == Len(s)

\* Whether sub occurs in s at offset i.
OccursAt(s, sub, i) ==
    /\ i >= 0
    /\ i + Len(sub) <= Len(s)
    /\ Slice(s, i, i + Len(sub)) = sub

\* strings.Index(s, sub): the offset of the first occurrence, or -1.
Index(s, sub) ==
    LET hits == {i \in 0..Len(s) : OccursAt(s, sub, i)}
    IN  IF hits = {} THEN -1 ELSE CHOOSE i \in hits : \A j \in hits : i <= j

\* strings.LastIndex(s, sub): the offset of the last occurrence, or -1.
LastIndex(s, sub) ==
    LET hits == {i \in 0..Len(s) : OccursAt(s, sub, i)}
    IN  IF hits = {} THEN -1 ELSE CHOOSE i \in hits : \A j \in hits : i >= j

\* The white space strings.TrimSpace removes (and JSON skips).
IsSpace(c) == c \in {" ", "\n", "\t", "\r"}

RECURSIVE TrimLeft(_)
TrimLeft(s) == IF s # <<>> /\ IsSpace(Head(s)) THEN TrimLeft(Tail(s)) ELSE s

RECURSIVE TrimRight(_)
TrimRight(s) ==
    IF s # <<>> /\ IsSpace(s[Len(s)]) THEN TrimRight(SubSeq(s, 1, Len(s) - 1)) ELSE s

\* strings.TrimSpace(s).
TrimSpace(s) == TrimRight(TrimLeft(s))

\* strings.TrimPrefix(s, BOM).
TrimBOM(s) == IF s # <<>> /\ Head(s) = "BOM" THEN Tail(s) ELSE s

Max(a, b) == IF a >= b THEN a ELSE b

\* The mutant of thoroughlyCleanJSON that strips white space and a BOM and
\* does not truncate.
thoroughlyCleanJSONNoTruncation(jsonStr) == TrimSpace(TrimSpace(TrimBOM(jsonStr)))

\* thoroughlyCleanJSON: strip a BOM and white space, cut after the last
\* closing brace or bracket, strip white space again.
thoroughlyCleanJSON(jsonStr) ==
    LET s1          == TrimSpace(TrimBOM(jsonStr))
        lastBrace   == LastIndex(s1, <<"}">>)
        lastBracket == LastIndex(s1, <<"]">>)
        endPos      == Max(lastBrace, lastBracket)
        s2          == IF endPos # -1 THEN Slice(s1, 0, endPos + 1) ELSE s1
    IN  TrimSpace(s2)

(***************************************************************************)
(* encoding/json on the texts of the model: objects, arrays, strings       *)
(* without escapes, unsigned integers and the three literals.  A value is  *)
(* [ok, t, str, kv, next]: t its kind, str a string's characters, kv an    *)
(* object's <<key, value>> pairs in order (an array's values under the     *)
(* key <<>>), next the index after it.                                     *)
(***************************************************************************)

Digits == {"0", "1", "2", "3", "4", "5", "6", "7", "8", "9"}

JSONBad == [ok |-> FALSE, t |-> "bad", str |-> <<>>, kv |-> <<>>, next |-> 0]

JSONVal(t, str, kv, next) == [ok |-> TRUE, t |-> t, str |-> str, kv |-> kv, next |-> next]

RECURSIVE SkipWS(_, _)
SkipWS(s, i) == IF i <= Len(s) /\ IsSpace(s[i]) THEN SkipWS(s, i + 1) ELSE i

\* A string starting at the quote s[i]: up to the next quote; a control
\* character inside it is a syntax error.
ParseString(s, i) ==
    LET ends == {j \in (i + 1)..Len(s) : s[j] = "\""}
    IN  IF ends = {} THEN JSONBad
        ELSE LET j    == CHOOSE e \in ends : \A f \in ends : e <= f
                 body == SubSeq(s, i + 1, j - 1)
             IN  IF \E k \in 1..Len(body) : body[k] \in {"\n", "\t", "\r"}
                 THEN JSONBad
                 ELSE JSONVal("string", body, <<>>, j + 1)

RECURSIVE DigitsEnd(_, _)
DigitsEnd(s, i) == IF i <= Len(s) /\ s[i] \in Digits THEN DigitsEnd(s, i + 1) ELSE i

ParseNumber(s, i) ==
    LET j == DigitsEnd(s, i)
    IN  IF s[i] = "0" /\ j > i + 1 THEN JSONBad
        ELSE JSONVal("number", SubSeq(s, i, j - 1), <<>>, j)

ParseLiteral(s, i) ==
    LET is(w) == i + Len(w) - 1 <= Len(s) /\ SubSeq(s, i, i + Len(w) - 1) = w
    IN  IF is(<<"n", "u", "l", "l">>) THEN JSONVal("null", <<"n", "u", "l", "l">>, <<>>, i + 4)
        ELSE IF is(<<"t", "r", "u", "e">>) THEN JSONVal("bool", <<"t", "r", "u", "e">>, <<>>, i + 4)
        ELSE IF is(<<"f", "a", "l", "s", "e">>)
             THEN JSONVal("bool", <<"f", "a", "l", "s", "e">>, <<>>, i + 5)
        ELSE JSONBad

RECURSIVE ParseValue(_, _)
RECURSIVE ParseMembers(_, _, _)
RECURSIVE ParseItems(_, _, _)

\* The members of an object from s[i] on, the opening brace (or the comma
\* after the members acc) just read.
ParseMembers(s, i0, acc) ==
    LET i == SkipWS(s, i0)
    IN  IF i > Len(s) THEN JSONBad
        ELSE IF s[i] = "}" /\ acc = <<>> THEN JSONVal("object", <<>>, acc, i + 1)
        ELSE IF s[i] # "\"" THEN JSONBad
        ELSE LET k == ParseString(s, i)
                 c == SkipWS(s, k.next)
             IN  IF ~k.ok \/ c > Len(s) \/ s[c] # ":" THEN JSONBad
                 ELSE LET v == ParseValue(s, c + 1)
                          e == SkipWS(s, v.next)
                          kv == Append(acc, <<k.str, v>>)
                      IN  IF ~v.ok \/ e > Len(s) THEN JSONBad
                          ELSE IF s[e] = "}" THEN JSONVal("object", <<>>, kv, e + 1)
                          ELSE IF s[e] = "," THEN ParseMembers(s, e + 1, kv)
                          ELSE JSONBad

\* The items of an array from s[i] on.
ParseItems(s, i0, acc) ==
    LET i == SkipWS(s, i0)
    IN  IF i > Len(s) THEN JSONBad
        ELSE IF s[i] = "]" /\ acc = <<>> THEN JSONVal("array", <<>>, acc, i + 1)
        ELSE LET v == ParseValue(s, i)
                 e == SkipWS(s, v.next)
                 kv == Append(acc, <<<<>>, v>>)
             IN  IF ~v.ok \/ e > Len(s) THEN JSONBad
                 ELSE IF s[e] = "]" THEN JSONVal("array", <<>>, kv, e + 1)
                 ELSE IF s[e] = "," THEN ParseItems(s, e + 1, kv)
                 ELSE JSONBad

ParseValue(s, i0) ==
    LET i == SkipWS(s, i0)
    IN  IF i > Len(s) THEN JSONBad
        ELSE IF s[i] = "\"" THEN ParseString(s, i)
        ELSE IF s[i] = "{" THEN ParseMembers(s, i + 1, <<>>)
        ELSE IF s[i] = "[" THEN ParseItems(s, i + 1, <<>>)
        ELSE IF s[i] \in Digits THEN ParseNumber(s, i)
        ELSE ParseLiteral(s, i)

\* json.Valid: one value, then nothing but white space.
ParseDocument(text) ==
    LET v == ParseValue(text, 1)
    IN  IF v.ok /\ SkipWS(text, v.next) > Len(text) THEN v ELSE JSONBad

(***************************************************************************)
(* json.Unmarshal into the struct {Action, Tool, Args, Answer}             *)
(***************************************************************************)

UpperCase == <<"A", "C", "G", "I", "L", "N", "O", "R", "S", "T", "W", "E", "X", "Y">>
LowerCase == <<"a", "c", "g", "i", "l", "n", "o", "r", "s", "t", "w", "e", "x", "y">>

\* The lower-case form of a character (of the letters of the model's texts).
Lower(c) ==
    IF \E k \in 1..Len(UpperCase) : UpperCase[k] = c
    THEN LowerCase[CHOOSE k \in 1..Len(UpperCase) : UpperCase[k] = c]
    ELSE c

\* strings.EqualFold on a key and a field name: encoding/json matches the
\* keys of an object to the struct's fields without regard to case.
EqualFold(key, name) ==
    /\ Len(key) = Len(name)
    /\ \A k \in 1..Len(key) : Lower(key[k]) = name[k]

ActionKey == <<"a", "c", "t", "i", "o", "n">>
ToolKey == <<"t", "o", "o", "l">>
ArgsKey == <<"a", "r", "g", "s">>
AnswerKey == <<"a", "n", "s", "w", "e", "r">>

\* The zero value of the struct, with no decoding error.
ZeroResp ==
    [err |-> FALSE, Action |-> <<>>, Tool |-> <<>>, Args |-> <<>>,
     ArgsNil |-> TRUE, Answer |-> <<>>]

\* One key of the object stored into the struct: a string field takes a
\* string, the map field an object; null leaves the field alone; any other
\* kind is a type error, which Unmarshal returns after decoding the rest.
SetField(r, key, v) ==
    LET strField(f) ==
            IF v.t = "string" THEN [r EXCEPT ![f] = v.str]
            ELSE IF v.t = "null" THEN r
            ELSE [r EXCEPT !.err = TRUE]
    IN  IF EqualFold(key, ActionKey) THEN strField("Action")
        ELSE IF EqualFold(key, ToolKey) THEN strField("Tool")
        ELSE IF EqualFold(key, AnswerKey) THEN strField("Answer")
        ELSE IF EqualFold(key, ArgsKey)
             THEN IF v.t = "object" THEN [r EXCEPT !.Args = v.kv, !.ArgsNil = FALSE]
                  ELSE IF v.t = "null" THEN r
                  ELSE [r EXCEPT !.err = TRUE]
        ELSE r

RECURSIVE SetFields(_, _)
\* The keys of the object applied in order: a later duplicate overrides.
SetFields(r, kv) ==
    IF kv = <<>> THEN r
    ELSE SetFields(SetField(r, kv[1][1], kv[1][2]), Tail(kv))

\* json.Unmarshal([]byte(text), &resp): err on a syntax error, on a
\* document that is not an object, and on a field of the wrong kind.
Unmarshal(text) ==
    LET v == ParseDocument(text)
    IN  IF ~v.ok THEN [ZeroResp EXCEPT !.err = TRUE]
        ELSE IF v.t = "null" THEN ZeroResp
        ELSE IF v.t # "object" THEN [ZeroResp EXCEPT !.err = TRUE]
        ELSE SetFields(ZeroResp, v.kv)

(***************************************************************************)
(* The action codec                                                        *)
(***************************************************************************)

\* The marker the streaming loop looks for: flag := `{"action"`.
Flag == <<"{", "\"", "a", "c", "t", "i", "o", "n", "\"">>

\* The marker the codec looks for: `{"action":"call_tool"`.
CallToolMarker == Flag \o <<":", "\"", "c", "a", "l", "l", "_", "t", "o", "o", "l", "\"">>

FinalAnswerName == <<"f", "i", "n", "a", "l", "_", "a", "n", "s", "w", "e", "r">>
CallToolName == <<"c", "a", "l", "l", "_", "t", "o", "o", "l">>

\* What the decoding of a response comes to: kind is "final" (return
\* result, stop), "noname" (the error "tool name is required") or "call"
\* (dispatch resp.Tool); json is the cleaned text, resp the decoded struct.
Decision(kind, res, json, resp) ==
    [kind |-> kind, result |-> res, json |-> json, resp |-> resp]

\* The mutant of SwitchOnAction that surfaces a decoding error.
SwitchOnActionFailClosed(response, callToolJson, resp) ==
    IF resp.err THEN Decision("noname", <<>>, callToolJson, resp)
    ELSE IF resp.Action = FinalAnswerName
         THEN Decision("final", resp.Answer, callToolJson, resp)
    ELSE IF resp.Action = CallToolName
         THEN IF resp.Tool = <<>> THEN Decision("noname", <<>>, callToolJson, resp)
              ELSE Decision("call", <<>>, callToolJson, resp)
    ELSE Decision("final", response, callToolJson, resp)

\* The mutant of SwitchOnAction that takes a call without a tool name for
\* the final answer.
SwitchOnActionNamelessIsAnswer(response, callToolJson, resp) ==
    IF resp.err THEN Decision("final", response, callToolJson, resp)
    ELSE IF resp.Action = FinalAnswerName
         THEN Decision("final", resp.Answer, callToolJson, resp)
    ELSE IF resp.Action = CallToolName /\ resp.Tool # <<>>
         THEN Decision("call", <<>>, callToolJson, resp)
    ELSE Decision("final", response, callToolJson, resp)

\* After json.Unmarshal: an error makes the response the final answer;
\* else the switch on resp.Action.
SwitchOnAction(response, callToolJson, resp) ==
    IF resp.err THEN Decision("final", response, callToolJson, resp)
    ELSE IF resp.Action = FinalAnswerName
         THEN Decision("final", resp.Answer, callToolJson, resp)
    ELSE IF resp.Action = CallToolName
         THEN IF resp.Tool = <<>> THEN Decision("noname", <<>>, callToolJson, resp)
              ELSE Decision("call", <<>>, callToolJson, resp)
    ELSE Decision("final", response, callToolJson, resp)

\* The cleaned text unmarshalled; skipEmpty is handleStreamResponse's
\* `if callToolJson != ""` around the Unmarshal.
DecodeCleaned(response, callToolJson, skipEmpty) ==
    SwitchOnAction(response, callToolJson,
                   IF skipEmpty /\ callToolJson = <<>> THEN ZeroResp
                   ELSE Unmarshal(callToolJson))

\* Without the marker the response is the final answer; with it, the text
\* from the marker on is cleaned and decoded.
DecodeFrom(response, idx, skipEmpty) ==
    IF idx = -1 THEN Decision("final", response, <<>>, ZeroResp)
    ELSE DecodeCleaned(response, thoroughlyCleanJSON(From(response, idx)), skipEmpty)

\* The decoding parseLLMResponse and handleStreamResponse both start with.
DecodeAction(response, skipEmpty) ==
    DecodeFrom(response, Index(response, CallToolMarker), skipEmpty)

\* The decoding of the full-object variant of parseLLMResponse: the whole
\* response is unmarshalled, without a search for the marker and without
\* cleaning.
DecodeWhole(response) == SwitchOnAction(response, response, Unmarshal(response))

\* The mutant of findTool that compares names under case folding.
findToolFold(toolNames, name) ==
    LET hits == {k \in 1..Len(toolNames) : EqualFold(toolNames[k], name)}
    IN  IF hits = {} THEN 0 ELSE CHOOSE k \in hits : \A j \in hits : k <= j

\* findTool: the first registered tool of that name; 0 for nil.
findTool(toolNames, name) ==
    LET hits == {k \in 1..Len(toolNames) : toolNames[k] = name}
    IN  IF hits = {} THEN 0 ELSE CHOOSE k \in hits : \A j \in hits : k <= j

\* fmt.Sprintf("Tool %s returned: %s", tool, toolResult).
ToolMessage(tool, toolResult) ==
    <<"T", "o", "o", "l", " ">> \o tool
        \o <<" ", "r", "e", "t", "u", "r", "n", "e", "d", ":", " ">> \o toolResult

(***************************************************************************)
(* Messages and the memory store                                           *)
(***************************************************************************)

Msg(role, content) == [Role |-> role, Content |-> content]

\* The mutant of SaveMessages without the guard on the conversation id.
SaveMessagesUnguarded(st, mem, conversationID, msg) ==
    IF mem = "buffer"
    THEN [st EXCEPT ![IF conversationID = "" THEN "default" ELSE conversationID] =
                        Append(@, msg)]
    ELSE st

\* The guarded a.mem.SaveMessages(ctx, a.conversationID, [msg]) that follows
\* every append of a run: mem is "nil", "buffer" (BufferMemory, whose save
\* appends) or "failing" (a store whose save returns an error, which the
\* caller drops).
SaveMessages(st, mem, conversationID, msg) ==
    IF mem = "buffer" /\ conversationID # ""
    THEN [st EXCEPT ![conversationID] = Append(@, msg)]
    ELSE st

\* BufferMemory.getConversationID: the key of a conversation in the store.
getConversationID(conversationID) ==
    IF conversationID = "" THEN "default" ELSE conversationID

\* a.mem.LoadMessages(ctx, conversationID): BufferMemory returns a copy of
\* what it holds and no error; the failing store returns an error.
LoadMessages(st, mem, conversationID) ==
    IF mem = "buffer"
    THEN [err |-> FALSE, history |-> st[getConversationID(conversationID)]]
    ELSE [err |-> TRUE, history |-> <<>>]

(***************************************************************************)
(* The inputs of the model                                                 *)
(***************************************************************************)

\* The largest iteration bound a session is configured with.
MaxIter == 2

\* The provider cuts a response into deltas at any offsets up to this one;
\* what lies beyond the last cut arrives as one delta.
MaxSplitOffset == 11

XName == <<"x">>

\* `{"action":"call_tool","tool":"x","args":{}}`.
ToolCallX ==
    CallToolMarker \o <<",", "\"", "t", "o", "o", "l", "\"", ":", "\"", "x", "\"">>
        \o <<",", "\"", "a", "r", "g", "s", "\"", ":", "{", "}">> \o <<"}">>

SomeTrailingText ==
    <<" ", "s", "o", "m", "e", " ", "t", "r", "a", "i", "l", "i", "n", "g", " ", "t", "e", "x", "t">>

\* A call object followed by narration free of closing braces and brackets.
RespCallTrailing == ToolCallX \o SomeTrailingText

\* Narration, then a call object.
RespNarratedCall == <<"H", " ">> \o ToolCallX

\* A call object followed by narration that holds a closing brace.
RespCallBraceTrail == ToolCallX \o <<" ", "o", "k", " ", "}">>

\* A call object followed by narration that holds a closing bracket.
RespCallBracketTrail == ToolCallX \o <<" ", "[", "1", "]">>

\* The marker, then text that is no JSON.
RespGarbage == CallToolMarker \o <<" ", "o", "o", "p", "s">>

\* `{"action":"call_tool","tool":7}`: an object with a field of the wrong kind.
RespWrongKind == CallToolMarker \o <<",", "\"", "t", "o", "o", "l", "\"", ":", "7", "}">>

\* `{"action":"call_tool","tool":""}`.
RespNoName == CallToolMarker \o <<",", "\"", "t", "o", "o", "l", "\"", ":", "\"", "\"", "}">>

\* `{"action":"call_tool","tool":"y"}`: a tool that is not registered.
RespUnknownTool ==
    CallToolMarker \o <<",", "\"", "t", "o", "o", "l", "\"", ":", "\"", "y", "\"", "}">>

\* `{"action":"final_answer","answer":"hi"}`.
RespFinalJSON ==
    Flag \o <<":", "\"", "f", "i", "n", "a", "l", "_", "a", "n", "s", "w", "e", "r", "\"">>
        \o <<",", "\"", "a", "n", "s", "w", "e", "r", "\"", ":", "\"", "h", "i", "\"", "}">>

\* `{"action":"call_tool","action":"final_answer","answer":"hi"}`.
RespOverride ==
    CallToolMarker
        \o <<",", "\"", "a", "c", "t", "i", "o", "n", "\"", ":", "\"">> \o FinalAnswerName
        \o <<"\"", ",", "\"", "a", "n", "s", "w", "e", "r", "\"", ":", "\"", "h", "i", "\"", "}">>

RespShort == <<"H", "i">>

\* Narration longer than the flag, with a three-byte character in it.
RespLong == <<"I", "t", " ", "i", "s", " ", "U+4F60", " ", "4", "2", ",", " ", "o", "k", ".">>

\* Responses that hold no codec marker.
PlainResponses == {<<>>, RespShort, RespLong, Flag, RespFinalJSON}

\* Responses that hold a well-formed call of the registered tool x.
CallResponses == {ToolCallX, RespCallTrailing, RespNarratedCall}

\* Responses that hold the codec marker and do not decode.
UndecodableResponses == {RespCallBraceTrail, RespCallBracketTrail, RespGarbage, RespWrongKind}

\* The complete outputs the model provider may return.
Responses ==
    PlainResponses \cup CallResponses \cup UndecodableResponses
        \cup {RespNoName, RespUnknownTool, RespOverride}

\* The responses whose stream starts with a delta of reasoning content.
ReasonedResponses == {RespShort}

\* The caller's message.
UserInput == <<"6", "*", "7", "?">>

\* What the tool x returns.
ToolResult == <<"4", "2">>

\* The memory handle and conversation id a session is created with.
MemConfigs == {<<"buffer", "">>, <<"buffer", "c1">>}

\* The name of another tool: x in upper case.
UpperXName == <<"X">>

\* The name the response RespUnknownTool asks for.
YName == <<"y">>

\* The registries of the lookup: WithTools with none, one or two tools, the
\* name x registered once, twice, after a tool of another name or not at all.
Registries ==
    {<<>>, <<XName>>, <<UpperXName>>, <<XName, XName>>, <<UpperXName, XName>>,
     <<YName, XName>>, <<XName, YName>>, <<YName, UpperXName>>}

\* The same conversation kept in a BufferMemory and in a store whose
\* SaveMessages returns an error every time.
SaveConfigs == {<<"buffer", "c1">>, <<"failing", "c1">>}

ConversationIDs == {"c1", "c2"}

\* The keys of the store.
StoreKeys == ConversationIDs \cup {"default"}

\* What an earlier session saved for conversation "c1".
PriorHistory == <<Msg("user", <<"h", "i">>), Msg("assistant", <<"H", "i">>)>>

\* The text of a custom system prompt.
CustomPrompt == <<"<custom prompt>">>

\* Sessions without a store, with a BufferMemory that holds the earlier
\* conversation "c1", and with a store that fails.
SessionConfigs ==
    {<<"nil", "">>, <<"buffer", "">>, <<"buffer", "c1">>, <<"failing", "c1">>}

\* DecodeAction on the outputs of the provider, computed once.
DecodeTable == [skipEmpty \in BOOLEAN |-> [r \in Responses |-> DecodeAction(r, skipEmpty)]]

\* DecodeWhole on the outputs of the provider, computed once.
DecodeWholeTable == [r \in Responses |-> DecodeWhole(r)]

\* DecodeAction(response, skipEmpty), looked up when response is an output
\* of the provider.
Decoded(response, skipEmpty) ==
    IF response \in Responses THEN DecodeTable[skipEmpty][response]
    ELSE DecodeAction(response, skipEmpty)

(***************************************************************************)
(* The session, a run, and what the caller of a streaming run receives     *)
(***************************************************************************)

\* The runs that may execute at once on one session.
RunIDs == {1, 2}

\* A run that has not been invoked.
NotStarted ==
    [pc |-> "idle", iterations |-> 0, reading |-> FALSE, held |-> <<>>,
     pending |-> <<>>, after |-> "idle", calledWith |-> <<>>]

VARIABLES
    messages,           \* a.messages: the log, records [Role, Content]
    maxIter,            \* a.maxIter
    tools,              \* a.tools: the names of the registered tools, in order
    debug,              \* a.debug
    llmStreams,         \* whether a.llm implements llms.ChatStreamer
    mem,                \* a.mem: "nil", "buffer" or "failing"
    conversationID,     \* a.conversationID
    store,              \* the memory store: conversation id -> saved messages
    mode,               \* "none", "run" (RunWithContext) or "stream" (StreamWithContext)
    pc,                 \* where the run is: "idle", "loop", "recv", "returned",
                        \* "closed" (streaming), "done" (synchronous)
    iterations,         \* the local iterations
    result,             \* the answer the run returned (streaming: the answer
                        \* handleStreamResponse / handleLLMResponse resolved)
    err,                \* the error the run ended with, "nil" for none
    panicked,           \* the goroutine of the streaming run panicked
    ch,                 \* the chunks sent on ch, in order, as the caller receives
                        \* them: narration chunks sent back to back are joined
    closed,             \* close(ch) has run
    stream,             \* the open stream: [reasoning, rest] still to be received
    fullContent,        \* the local fullContent
    buffer,             \* the local buffer
    toolJSONStartFound, \* the local toolJSONStartFound
    llmCalls,           \* the number of Chat and ChatStream calls of the run
    toolCalls,          \* the tool.Call invocations of the run, in order
    responses,          \* the complete outputs the provider returned in the run
    forwarded,          \* the narration sent for the response being streamed
    ctx,                \* the context of the run: "background" (never
                        \* cancelled), "live" or "cancelled"
    sentAtCancel,       \* the number of chunks sent when ctx was cancelled
    currentUserInput,   \* the package variable currentUserInput of the Milvus store
    collection,         \* the rows inserted into the Milvus collection, in order
    logAtCall,          \* a.messages when Run or Stream was invoked (<<>> before)
    runs,               \* the runs that share the session: run -> [pc, iterations,
                        \* reading, held, pending, after, calledWith]
    saved,              \* conversation id -> the messages passed to
                        \* MilvusMemory.SaveMessages for it, in order
    markerSplits        \* how many delta boundaries of the response being
                        \* streamed fell inside its first flag (2: two or more)

vars ==
    <<messages, maxIter, tools, debug, llmStreams, mem, conversationID, store, mode,
      pc, iterations, result, err, panicked, ch, closed, stream, fullContent, buffer,
      toolJSONStartFound, llmCalls, toolCalls, responses, forwarded, markerSplits,
      ctx, sentAtCancel, currentUserInput, collection, saved, logAtCall,
      runs>>

session == <<maxIter, tools, debug, llmStreams, mem, conversationID>>

context == <<ctx, sentAtCancel>>

milvus == <<currentUserInput, collection, saved>>

streamLocals ==
    <<stream, fullContent, buffer, toolJSONStartFound, forwarded, markerSplits>>

\* StreamResponse, with the place of the send that made it: "narration",
\* "reasoning", "newline", "call", "result", "done" or "error".
Chunk(src, reasoning, content, done, error) ==
    [src |-> src, ReasoningContent |-> reasoning, Content |-> content, Done |-> done,
     Error |-> error]

ContentChunk(src, content) == Chunk(src, <<>>, content, FALSE, "nil")

ErrorChunk(error) == Chunk("error", <<>>, <<>>, FALSE, error)

DoneChunk == Chunk("done", <<>>, <<>>, TRUE, "nil")

\* ch <- StreamResponse{Content: text} of the receive loop.
SendNarration(q, text) ==
    IF q # <<>> /\ q[Len(q)].src = "narration"
    THEN [q EXCEPT ![Len(q)].Content = @ \o text]
    ELSE Append(q, ContentChunk("narration", text))

\* buildSystemPrompt(tools, skills): the text is not looked into.
SystemPrompt == <<"<system prompt>">>

\* CreateReactAgent: the options applied, the system prompt appended when
\* there are tools, and the history of the conversation loaded (the store
\* is new, so there is none).  The context is the one the run is given.
Created(configs, registries) ==
    /\ currentUserInput = <<>>
    /\ collection = <<>>
    /\ saved = [id \in ConversationIDs |-> <<>>]
    /\ logAtCall = <<>>
    /\ runs = [r \in RunIDs |-> NotStarted]
    /\ maxIter \in 1..MaxIter
    /\ tools \in registries
    /\ debug \in BOOLEAN
    /\ llmStreams \in BOOLEAN
    /\ \E c \in configs : mem = c[1] /\ conversationID = c[2]
    /\ store = [id \in StoreKeys |-> <<>>]
    /\ messages = IF Len(tools) > 0 THEN <<Msg("system", SystemPrompt)>> ELSE <<>>
    /\ mode = "none"
    /\ pc = "idle"
    /\ iterations = 0
    /\ result = <<>>
    /\ err = "nil"
    /\ panicked = FALSE
    /\ ch = <<>>
    /\ closed = FALSE
    /\ stream = [reasoning |-> FALSE, rest |-> <<>>]
    /\ fullContent = <<>>
    /\ buffer = <<>>
    /\ toolJSONStartFound = FALSE
    /\ llmCalls = 0
    /\ toolCalls = <<>>
    /\ responses = <<>>
    /\ forwarded = <<>>
    /\ markerSplits = 0

\* The sessions with the one tool x.
InitWith(configs) == Created(configs, {<<XName>>})

\* A session made with WithMemory(memory.NewBufferMemory()), with or without
\* WithConversationID.
Init == InitWith(MemConfigs) /\ ctx = "background" /\ sentAtCancel = 0

(***************************************************************************)
(* The codec's dispatch.  st is [messages, store, toolCalls, ch]; the      *)
(* result adds [result, cont, err]: what the handler returns.              *)
(***************************************************************************)

Returned(st, res, cont, e) ==
    [messages |-> st.messages, store |-> st.store, toolCalls |-> st.toolCalls,
     ch |-> st.ch, result |-> res, cont |-> cont, err |-> e]

\* The mutant of AppendAndSave that keeps a message out of the log when
\* its save fails.
AppendAndSaveOrDrop(st, msg) ==
    IF mem = "failing" THEN st
    ELSE [st EXCEPT !.messages = Append(@, msg),
                    !.store = SaveMessages(@, mem, conversationID, msg)]

\* a.messages = append(a.messages, msg), then the guarded save.
AppendAndSave(st, msg) ==
    [st EXCEPT !.messages = Append(@, msg),
               !.store = SaveMessages(@, mem, conversationID, msg)]

\* The call the handler makes: tool.Call(ctx, resp.Args) with its outcome.
Called(st, resp, outcome) ==
    [st EXCEPT !.toolCalls =
        Append(@, [tool |-> resp.Tool, args |-> resp.Args, argsNil |-> resp.ArgsNil,
                   outcome |-> outcome, response |-> Len(responses) + 1,
                   registered |-> findTool(tools, resp.Tool)])]

\* parseLLMResponse after the decoding d.
ParseDispatch(st, d, outcome) ==
    IF d.kind = "final" THEN Returned(st, d.result, FALSE, "nil")
    ELSE IF d.kind = "noname"
         THEN Returned(st, <<>>, FALSE, "tool name is required for call_tool action")
    ELSE IF findTool(tools, d.resp.Tool) = 0
         THEN Returned(st, <<>>, FALSE, "tool not found")
    ELSE IF outcome = "fail"
         THEN Returned(Called(st, d.resp, outcome), <<>>, FALSE, "tool call failed")
    ELSE Returned(
             AppendAndSave(Called(st, d.resp, outcome),
                           Msg("user", ToolMessage(d.resp.Tool, ToolResult))),
             <<>>, TRUE, "nil")

\* parseLLMResponse(ctx, response); outcome is what tool.Call returns.
parseLLMResponse(st, response, outcome) ==
    ParseDispatch(st, Decoded(response, FALSE), outcome)

\* handleLLMResponse(ctx, output): the fallback of the streaming run.
handleLLMResponse(st, output, outcome) ==
    parseLLMResponse(AppendAndSave(st, Msg("assistant", output)), output, outcome)

Quoted(text) == <<"\"">> \o text \o <<"\"">>

RECURSIVE MarshalValue(_)
RECURSIVE MarshalMembers(_, _)

\* The members of a map or the items of a slice, comma-separated.  (A map
\* is marshalled with its keys sorted and without duplicates; the texts of
\* the model give an object at most one key.)
MarshalMembers(kv, keyed) ==
    IF kv = <<>> THEN <<>>
    ELSE (IF keyed THEN Quoted(kv[1][1]) \o <<":">> ELSE <<>>)
             \o MarshalValue(kv[1][2])
             \o (IF Len(kv) > 1 THEN <<",">> ELSE <<>>)
             \o MarshalMembers(Tail(kv), keyed)

\* json.Marshal of a decoded interface{} value.
MarshalValue(v) ==
    IF v.t = "string" THEN Quoted(v.str)
    ELSE IF v.t = "object" THEN <<"{">> \o MarshalMembers(v.kv, TRUE) \o <<"}">>
    ELSE IF v.t = "array" THEN <<"[">> \o MarshalMembers(v.kv, FALSE) \o <<"]">>
    ELSE v.str

\* callToolResult.String(): the JSON of {action, tool, args, result, error,
\* message}; a nil map is null.
CallToolResultString(tool, args, argsNil, res, isError, message) ==
    <<"{", "\"", "a", "c", "t", "i", "o", "n", "\"", ":", "\"", "t", "o", "o", "l", "_",
      "r", "e", "s", "u", "l", "t", "\"", ",", "\"", "t", "o", "o", "l", "\"", ":">>
        \o Quoted(tool)
        \o <<",", "\"", "a", "r", "g", "s", "\"", ":">>
        \o (IF argsNil THEN <<"n", "u", "l", "l">>
            ELSE <<"{">> \o MarshalMembers(args, TRUE) \o <<"}">>)
        \o <<",", "\"", "r", "e", "s", "u", "l", "t", "\"", ":">> \o Quoted(res)
        \o <<",", "\"", "e", "r", "r", "o", "r", "\"", ":">>
        \o (IF isError THEN <<"t", "r", "u", "e">> ELSE <<"f", "a", "l", "s", "e">>)
        \o <<",", "\"", "m", "e", "s", "s", "a", "g", "e", "\"", ":">> \o Quoted(message)
        \o <<"}">>

\* fmt.Sprintf("tool '%s' not found", tool).
NotFoundMessage(tool) ==
    <<"t", "o", "o", "l", " ", "'">> \o tool
        \o <<"'", " ", "n", "o", "t", " ", "f", "o", "u", "n", "d">>

\* fmt.Sprintf("tool call failed for %s: %v", tool, err), the tool's error "boom".
CallFailedMessage(tool) ==
    <<"t", "o", "o", "l", " ", "c", "a", "l", "l", " ", "f", "a", "i", "l", "e", "d", " ",
      "f", "o", "r", " ">> \o tool \o <<":", " ", "b", "o", "o", "m">>

Sent(st, chunks) == [st EXCEPT !.ch = @ \o chunks]

Newline == ContentChunk("newline", <<"\n">>)

\* The mutant of StreamDispatch that appends a tool-result message for a
\* failed call.
StreamDispatchAppendsOnFailure(st, d, outcome) ==
    IF d.kind = "final" THEN Returned(st, d.result, FALSE, "nil")
    ELSE IF d.kind = "noname"
         THEN Returned(st, <<>>, FALSE, "tool name is required for call_tool action")
    ELSE IF findTool(tools, d.resp.Tool) = 0
         THEN Returned(st, <<>>, FALSE, "tool not found")
    ELSE Returned(
             AppendAndSave(Called(st, d.resp, outcome),
                           Msg("user", ToolMessage(d.resp.Tool, ToolResult))),
             <<>>, FALSE, IF outcome = "fail" THEN "tool call failed" ELSE "nil")

\* handleStreamResponse after the assistant message and the decoding d.
StreamDispatch(st, d, outcome) ==
    LET payload(res, isError, message) ==
            ContentChunk("result",
                CallToolResultString(d.resp.Tool, d.resp.Args, d.resp.ArgsNil, res,
                                     isError, message))
        st1 == Sent(st, <<Newline, ContentChunk("call", d.json)>>)
    IN  IF d.kind = "final" THEN Returned(st, d.result, FALSE, "nil")
        ELSE IF d.kind = "noname"
             THEN Returned(st, <<>>, FALSE, "tool name is required for call_tool action")
        ELSE IF findTool(tools, d.resp.Tool) = 0
             THEN Returned(
                      Sent(st1, <<Newline,
                                  payload(<<>>, TRUE, NotFoundMessage(d.resp.Tool))>>),
                      <<>>, FALSE, "tool not found")
        ELSE IF outcome = "fail"
             THEN Returned(
                      Sent(Called(st1, d.resp, outcome),
                           <<Newline,
                             payload(<<>>, TRUE, CallFailedMessage(d.resp.Tool))>>),
                      <<>>, FALSE, "tool call failed")
        ELSE Returned(
                 AppendAndSave(
                     Sent(Called(st1, d.resp, outcome),
                          <<Newline, payload(ToolResult, FALSE, <<>>), Newline>>),
                     Msg("user", ToolMessage(d.resp.Tool, ToolResult))),
                 <<>>, TRUE, "nil")

\* handleStreamResponse(ctx, ch, response); outcome is what tool.Call returns.
handleStreamResponse(st0, response, outcome) ==
    StreamDispatch(
        IF response # <<>> THEN AppendAndSave(st0, Msg("assistant", response)) ELSE st0,
        Decoded(response, TRUE), outcome)

(***************************************************************************)
(* The receive loop of StreamWithContext on one content delta.  loc is     *)
(* [fullContent, buffer, found]; emit is the narration the delta makes     *)
(* the loop send (<<>>: nothing is sent).  isAssistantContent is never     *)
(* set, so its branch is left out.                                         *)
(***************************************************************************)

Received(full, buf, found, emit) ==
    [fullContent |-> full, buffer |-> buf, found |-> found, emit |-> emit]

\* The mutant of ProcessDelta that slides the buffer by one character too
\* many: the head it releases is dropped from what it sends.
ProcessDeltaDropping(loc, content) ==
    LET full == loc.fullContent \o content
        buf  == loc.buffer \o content
        idx  == Index(buf, Flag)
        keep == RuneLen(buf) - RuneLen(Flag)
    IN  IF debug THEN Received(full, loc.buffer, loc.found, content)
        ELSE IF loc.found \/ ~(ByteLen(buf) > ByteLen(Flag))
             THEN Received(full, buf, loc.found, <<>>)
        ELSE IF idx # -1 THEN Received(full, From(buf, idx), TRUE, Slice(buf, 0, idx))
        ELSE IF RuneLen(buf) > RuneLen(Flag)
             THEN Received(full, From(buf, keep), FALSE, Slice(buf, 0, keep - 1))
        ELSE Received(full, buf, FALSE, <<>>)

\* The mutant of ProcessDelta that keeps one character less than the flag
\* has when it slides the buffer.
ProcessDeltaKeepsOneLess(loc, content) ==
    LET full == loc.fullContent \o content
        buf  == loc.buffer \o content
        idx  == Index(buf, Flag)
        keep == RuneLen(buf) - (RuneLen(Flag) - 1)
    IN  IF debug THEN Received(full, loc.buffer, loc.found, content)
        ELSE IF loc.found \/ ~(ByteLen(buf) > ByteLen(Flag))
             THEN Received(full, buf, loc.found, <<>>)
        ELSE IF idx # -1 THEN Received(full, From(buf, idx), TRUE, Slice(buf, 0, idx))
        ELSE IF RuneLen(buf) > RuneLen(Flag)
             THEN Received(full, From(buf, keep), FALSE, Slice(buf, 0, keep))
        ELSE Received(full, buf, FALSE, <<>>)

\* The mutant of ProcessDelta that searches for the flag in debug mode too.
ProcessDeltaSearchesInDebug(loc, content) ==
    LET full == loc.fullContent \o content
        buf  == loc.buffer \o content
        idx  == Index(buf, Flag)
        keep == RuneLen(buf) - RuneLen(Flag)
    IN  IF loc.found \/ ~(ByteLen(buf) > ByteLen(Flag))
        THEN Received(full, buf, loc.found, <<>>)
        ELSE IF idx # -1 THEN Received(full, From(buf, idx), TRUE, Slice(buf, 0, idx))
        ELSE IF RuneLen(buf) > RuneLen(Flag)
             THEN Received(full, From(buf, keep), FALSE, Slice(buf, 0, keep))
        ELSE Received(full, buf, FALSE, <<>>)

\* One content delta: fullContent grows; in debug mode the delta is sent as
\* it is; else the buffer grows and, once it is longer than the flag, is
\* searched: with the flag found, what precedes it is sent and the rest
\* kept; without, all but the last len(flagRunes) characters are sent.
ProcessDelta(loc, content) ==
    LET full == loc.fullContent \o content
        buf  == loc.buffer \o content
        idx  == Index(buf, Flag)
        keep == RuneLen(buf) - RuneLen(Flag)
    IN  IF debug THEN Received(full, loc.buffer, loc.found, content)
        ELSE IF loc.found \/ ~(ByteLen(buf) > ByteLen(Flag))
             THEN Received(full, buf, loc.found, <<>>)
        ELSE IF idx # -1 THEN Received(full, From(buf, idx), TRUE, Slice(buf, 0, idx))
        ELSE IF RuneLen(buf) > RuneLen(Flag)
             THEN Received(full, From(buf, keep), FALSE, Slice(buf, 0, keep))
        ELSE Received(full, buf, FALSE, <<>>)

(***************************************************************************)
(* The synchronous run                                                     *)
(***************************************************************************)

ToolOutcomes == {"ok", "fail"}

\* The state a handler starts from.
Here == [messages |-> messages, store |-> store, toolCalls |-> toolCalls, ch |-> ch]

\* iterations++.
NextIteration(n) == n + 1

\* The loop condition: iterations < a.maxIter.
MayIterate(n) == n < maxIter

\* RunWithContext up to its loop: the user message appended and saved.
Run ==
    /\ pc = "idle"
    /\ \E st \in {AppendAndSave(Here, Msg("user", UserInput))} :
           /\ messages' = st.messages
           /\ store' = st.store
    /\ mode' = "run"
    /\ pc' = "loop"
    /\ iterations' = 0
    /\ logAtCall' = messages
    /\ UNCHANGED <<session, context, milvus, runs, result, err, panicked, ch, closed,
                   streamLocals, llmCalls, toolCalls, responses>>

\* The mutant of RunReturns that goes round the loop again.
RunReturnsAndRetries(res, e) ==
    /\ result' = res
    /\ err' = e
    /\ pc' = "loop"

\* The run returns (res, e).
RunReturns(res, e) ==
    /\ result' = res
    /\ err' = e
    /\ pc' = "done"

\* The mutant of RunIterate that logs an empty assistant message when the
\* Chat call fails or returns no choice.
RunIterateLogsFailure ==
    /\ mode = "run"
    /\ pc = "loop"
    /\ MayIterate(iterations)
    /\ iterations' = NextIteration(iterations)
    /\ llmCalls' = llmCalls + 1
    /\ \/ /\ RunReturns(<<>>, "failed to get LLM response")
          /\ messages' = Append(messages, Msg("assistant", <<>>))
          /\ UNCHANGED <<store, toolCalls, responses>>
       \/ /\ RunReturns(<<>>, "no response from LLM")
          /\ messages' = Append(messages, Msg("assistant", <<>>))
          /\ UNCHANGED <<store, toolCalls, responses>>
       \/ \E output \in Responses, outcome \in ToolOutcomes :
            \E r \in {parseLLMResponse(AppendAndSave(Here, Msg("assistant", output)),
                                        output, outcome)} :
                /\ messages' = r.messages
                /\ store' = r.store
                /\ toolCalls' = r.toolCalls
                /\ responses' = Append(responses, output)
                /\ IF r.err # "nil" THEN RunReturns(<<>>, r.err)
                   ELSE IF ~r.cont THEN RunReturns(r.result, "nil")
                   ELSE UNCHANGED <<result, err, pc>>
    /\ UNCHANGED <<session, context, milvus, logAtCall, runs, mode, panicked, ch, closed,
                   streamLocals>>

\* One iteration of RunWithContext's loop: the Chat call fails, returns no
\* choice, or returns output, which is appended, saved and parsed.
RunIterate ==
    /\ mode = "run"
    /\ pc = "loop"
    /\ MayIterate(iterations)
    /\ iterations' = NextIteration(iterations)
    /\ llmCalls' = llmCalls + 1
    /\ \/ /\ RunReturns(<<>>, "failed to get LLM response")
          /\ UNCHANGED <<messages, store, toolCalls, responses>>
       \/ /\ RunReturns(<<>>, "no response from LLM")
          /\ UNCHANGED <<messages, store, toolCalls, responses>>
       \/ \E output \in Responses, outcome \in ToolOutcomes :
            \E r \in {parseLLMResponse(AppendAndSave(Here, Msg("assistant", output)),
                                        output, outcome)} :
                /\ messages' = r.messages
                /\ store' = r.store
                /\ toolCalls' = r.toolCalls
                /\ responses' = Append(responses, output)
                /\ IF r.err # "nil" THEN RunReturns(<<>>, r.err)
                   ELSE IF ~r.cont THEN RunReturns(r.result, "nil")
                   ELSE UNCHANGED <<result, err, pc>>
    /\ UNCHANGED <<session, context, milvus, logAtCall, runs, mode, panicked, ch, closed,
                   streamLocals>>

\* The loop ran out: "max iterations (%d) exceeded".
RunExceeded ==
    /\ mode = "run"
    /\ pc = "loop"
    /\ ~MayIterate(iterations)
    /\ RunReturns(<<>>, "max iterations exceeded")
    /\ UNCHANGED <<session, context, milvus, logAtCall, runs, messages, store, mode,
                   iterations, panicked, ch, closed, streamLocals, llmCalls, toolCalls,
                   responses>>

(***************************************************************************)
(* The streaming run                                                       *)
(***************************************************************************)

\* StreamWithContext: the channel made, the goroutine started, the user
\* message appended and saved.
StreamWithContext ==
    /\ pc = "idle"
    /\ \E st \in {AppendAndSave(Here, Msg("user", UserInput))} :
           /\ messages' = st.messages
           /\ store' = st.store
    /\ mode' = "stream"
    /\ pc' = "loop"
    /\ iterations' = 0
    /\ ch' = <<>>
    /\ logAtCall' = messages
    /\ UNCHANGED <<session, context, milvus, runs, result, err, panicked, closed,
                   streamLocals, llmCalls, toolCalls, responses>>

\* ctx.Done() is closed: a provider call made with ctx, or in flight with it,
\* returns the error of the context.
Cancelled == ctx = "cancelled"

\* The goroutine sends its last chunk and returns.
StreamReturns(q, last, res, e) ==
    /\ ch' = Append(q, last)
    /\ result' = res
    /\ err' = e
    /\ pc' = "returned"

\* An iteration with an llm that is no ChatStreamer: one Chat call, handled
\* by handleLLMResponse.  When the handler asks to continue, the code goes
\* on to streamer.ChatStream with the nil streamer of the failed type
\* assertion: the goroutine panics, its deferred close runs.
StreamFallback ==
    /\ mode = "stream"
    /\ pc = "loop"
    /\ MayIterate(iterations)
    /\ ~llmStreams
    /\ iterations' = NextIteration(iterations)
    /\ llmCalls' = llmCalls + 1
    /\ \/ /\ StreamReturns(ch, ErrorChunk("failed to get LLM response"), <<>>,
                           "failed to get LLM response")
          /\ UNCHANGED <<messages, store, toolCalls, responses, panicked>>
       \/ /\ ~Cancelled
          /\ StreamReturns(ch, ErrorChunk("no response from LLM"), <<>>,
                           "no response from LLM")
          /\ UNCHANGED <<messages, store, toolCalls, responses, panicked>>
       \/ \E output \in Responses, outcome \in ToolOutcomes :
            \E r \in {handleLLMResponse(Here, output, outcome)} :
                /\ ~Cancelled
                /\ messages' = r.messages
                /\ store' = r.store
                /\ toolCalls' = r.toolCalls
                /\ responses' = Append(responses, output)
                /\ IF r.err # "nil"
                   THEN StreamReturns(r.ch, ErrorChunk(r.err), <<>>, r.err)
                        /\ UNCHANGED panicked
                   ELSE IF ~r.cont
                   THEN StreamReturns(r.ch, DoneChunk, r.result, "nil")
                        /\ UNCHANGED panicked
                   ELSE /\ ch' = IF r.result # <<>>
                                 THEN Append(r.ch, ContentChunk("narration", r.result))
                                 ELSE r.ch
                        /\ panicked' = TRUE
                        /\ err' = "nil pointer dereference"
                        /\ pc' = "returned"
                        /\ UNCHANGED result
    /\ UNCHANGED <<session, context, milvus, logAtCall, runs, mode, closed, streamLocals>>

\* The mutant of StreamOpen that keeps the buffer and the found flag of the
\* response before.
StreamOpenKeepsBuffer ==
    /\ mode = "stream"
    /\ pc = "loop"
    /\ MayIterate(iterations)
    /\ llmStreams
    /\ iterations' = NextIteration(iterations)
    /\ llmCalls' = llmCalls + 1
    /\ \/ /\ StreamReturns(ch, ErrorChunk("failed to create stream"), <<>>,
                           "failed to create stream")
          /\ UNCHANGED streamLocals
       \/ /\ ~Cancelled
          /\ \E output \in Responses, reasons \in BOOLEAN :
                /\ reasons => output \in ReasonedResponses
                /\ stream' = [reasoning |-> reasons, rest |-> output]
          /\ fullContent' = <<>>
          /\ forwarded' = <<>>
          /\ markerSplits' = 0
          /\ pc' = "recv"
          /\ UNCHANGED <<ch, result, err, buffer, toolJSONStartFound>>
    /\ UNCHANGED <<session, context, milvus, logAtCall, runs, messages, store, mode,
                   panicked, closed, toolCalls, responses>>

\* An iteration with a ChatStreamer: streamer.ChatStream fails, or opens the
\* stream of a response; the locals of the receive loop are reset.
StreamOpen ==
    /\ mode = "stream"
    /\ pc = "loop"
    /\ MayIterate(iterations)
    /\ llmStreams
    /\ iterations' = NextIteration(iterations)
    /\ llmCalls' = llmCalls + 1
    /\ \/ /\ StreamReturns(ch, ErrorChunk("failed to create stream"), <<>>,
                           "failed to create stream")
          /\ UNCHANGED streamLocals
       \/ /\ ~Cancelled
          /\ \E output \in Responses, reasons \in BOOLEAN :
                /\ reasons => output \in ReasonedResponses
                /\ stream' = [reasoning |-> reasons, rest |-> output]
          /\ fullContent' = <<>>
          /\ buffer' = <<>>
          /\ toolJSONStartFound' = FALSE
          /\ forwarded' = <<>>
          /\ markerSplits' = 0
          /\ pc' = "recv"
          /\ UNCHANGED <<ch, result, err>>
    /\ UNCHANGED <<session, context, milvus, logAtCall, runs, messages, store, mode,
                   panicked, closed, toolCalls, responses>>

\* stream.Recv() fails: the stream is closed, the error sent.  (The provider
\* fails before the first content delta or after the last; a cancelled
\* context fails the receive wherever it is.)
StreamRecvError ==
    /\ pc = "recv"
    /\ Cancelled \/ fullContent = <<>> \/ stream.rest = <<>>
    /\ StreamReturns(ch, ErrorChunk("stream error"), <<>>, "stream error")
    /\ UNCHANGED <<session, context, milvus, logAtCall, runs, messages, store, mode,
                   iterations, panicked, closed, streamLocals, llmCalls, toolCalls,
                   responses>>

\* stream.Recv() returns a delta with reasoning content.
StreamRecvReasoning ==
    /\ pc = "recv"
    /\ ~Cancelled
    /\ stream.reasoning
    /\ stream' = [stream EXCEPT !.reasoning = FALSE]
    /\ ch' = Append(ch, Chunk("reasoning", <<"r">>, <<>>, FALSE, "nil"))
    /\ UNCHANGED <<session, context, milvus, logAtCall, runs, messages, store, mode, pc,
                   iterations, result, err, panicked, closed, fullContent, buffer,
                   toolJSONStartFound, forwarded, markerSplits, llmCalls, toolCalls,
                   responses>>

\* Whether offset pos of text lies inside the first flag of text: after its
\* first byte and before its last.
SplitsFlag(text, pos) ==
    \E idx \in {Index(text, Flag)} : idx # -1 /\ idx < pos /\ pos < idx + Len(Flag)

\* stream.Recv() returns a delta with content: a non-empty head of what the
\* provider still has to deliver, ending at an offset it may cut at, or all
\* of it.
StreamRecvContent ==
    /\ pc = "recv"
    /\ ~Cancelled
    /\ ~stream.reasoning
    /\ \E n \in 1..Len(stream.rest) :
         /\ n = Len(stream.rest) \/ Len(fullContent) + n <= MaxSplitOffset
         /\ \E loc \in {ProcessDelta([fullContent |-> fullContent, buffer |-> buffer,
                                       found |-> toolJSONStartFound],
                                      SubSeq(stream.rest, 1, n))} :
                /\ stream' = [stream EXCEPT !.rest = From(@, n)]
                /\ fullContent' = loc.fullContent
                /\ buffer' = loc.buffer
                /\ toolJSONStartFound' = loc.found
                /\ forwarded' = forwarded \o loc.emit
                /\ markerSplits' = IF n < Len(stream.rest)
                                       /\ SplitsFlag(fullContent \o stream.rest,
                                                     Len(fullContent) + n)
                                    THEN IF markerSplits = 0 THEN 1 ELSE 2
                                    ELSE markerSplits
                /\ ch' = IF loc.emit # <<>> THEN SendNarration(ch, loc.emit) ELSE ch
    /\ UNCHANGED <<session, context, milvus, logAtCall, runs, messages, store, mode, pc,
                   iterations, result, err, panicked, closed, llmCalls, toolCalls,
                   responses>>

\* The mutant of FlushAtEnd that sends the buffer whether or not the flag
\* was found.
FlushAtEndAlways(buf, found) == Len(buf) > 0

\* Whether the buffer is sent when the stream ends.
FlushAtEnd(buf, found) == Len(buf) > 0 /\ ~found

\* Whether the complete response is handed to handleStreamResponse.
HandlesResponse(full) == full # <<>>

\* stream.Recv() returns io.EOF: the buffer is flushed unless the flag was
\* found, the stream closed, and a non-empty fullContent handed to
\* handleStreamResponse; an empty one goes round the loop.  A live context
\* may be cancelled while tool.Call(ctx, resp.Args) runs: the delimiter and
\* the call have been sent by then.
StreamRecvEOF ==
    /\ pc = "recv"
    /\ ~Cancelled
    /\ ~stream.reasoning
    /\ stream.rest = <<>>
    /\ \E flush \in {FlushAtEnd(buffer, toolJSONStartFound)} :
       \E q \in {IF flush THEN SendNarration(ch, buffer) ELSE ch} :
           /\ buffer' = IF flush THEN <<>> ELSE buffer
           /\ forwarded' = IF flush THEN forwarded \o buffer ELSE forwarded
           /\ responses' = Append(responses, fullContent)
           /\ IF HandlesResponse(fullContent)
              THEN \E outcome \in ToolOutcomes :
                     \E r \in {handleStreamResponse([Here EXCEPT !.ch = q],
                                                    fullContent, outcome)} :
                         /\ messages' = r.messages
                         /\ store' = r.store
                         /\ toolCalls' = r.toolCalls
                         /\ \E during \in BOOLEAN :
                                /\ during => /\ ctx = "live"
                                             /\ Len(r.toolCalls) > Len(toolCalls)
                                /\ ctx' = IF during THEN "cancelled" ELSE ctx
                                /\ sentAtCancel' =
                                       IF during THEN Len(q) + 2 ELSE sentAtCancel
                         /\ IF r.err # "nil"
                            THEN StreamReturns(r.ch, ErrorChunk(r.err), <<>>, r.err)
                            ELSE IF ~r.cont
                            THEN StreamReturns(r.ch, DoneChunk, r.result, "nil")
                            ELSE /\ ch' = r.ch
                                 /\ pc' = "loop"
                                 /\ UNCHANGED <<result, err>>
              ELSE /\ ch' = q
                   /\ pc' = "loop"
                   /\ UNCHANGED <<messages, store, toolCalls, result, err, context>>
    /\ UNCHANGED <<session, milvus, logAtCall, runs, mode, iterations, panicked, closed,
                   stream, fullContent, toolJSONStartFound, markerSplits, llmCalls>>

\* The loop ran out: the error chunk "max iterations (%d) exceeded".
StreamExceeded ==
    /\ mode = "stream"
    /\ pc = "loop"
    /\ ~MayIterate(iterations)
    /\ StreamReturns(ch, ErrorChunk("max iterations exceeded"), <<>>,
                     "max iterations exceeded")
    /\ UNCHANGED <<session, context, milvus, logAtCall, runs, messages, store, mode,
                   iterations, panicked, closed, streamLocals, llmCalls, toolCalls,
                   responses>>

\* The mutant of StreamClose that leaves the channel open.
StreamCloseNever ==
    /\ pc = "returned"
    /\ UNCHANGED vars

\* The deferred function of the goroutine: close(ch).
StreamClose ==
    /\ pc = "returned"
    /\ closed' = TRUE
    /\ pc' = "closed"
    /\ UNCHANGED <<session, context, milvus, logAtCall, runs, messages, store, mode,
                   iterations, result, err, panicked, ch, streamLocals, llmCalls, toolCalls,
                   responses>>

Next ==
    \/ Run
    \/ RunIterate
    \/ RunExceeded
    \/ StreamWithContext
    \/ StreamFallback
    \/ StreamOpen
    \/ StreamRecvError
    \/ StreamRecvReasoning
    \/ StreamRecvContent
    \/ StreamRecvEOF
    \/ StreamExceeded
    \/ StreamClose

Spec == Init /\ [][Next]_vars

\* Every provider and tool call returns, the caller keeps receiving, and
\* the goroutine is scheduled: a run that can take a step takes one.
FairSpec == Spec /\ WF_vars(Next)

\* The runs of a session whose store saves and of one whose store fails to.
MemoryInit == InitWith(SaveConfigs) /\ ctx = "background" /\ sentAtCancel = 0

MemorySpec == MemoryInit /\ [][Next]_vars

(***************************************************************************)
(* The session around a run: construction over an earlier conversation,    *)
(* WithPrompt and SetConversationID                                        *)
(***************************************************************************)

RECURSIVE SystemPrefix(_)

\* The loop of SetConversationID: the system messages up to the first message
\* of another role.
SystemPrefix(log) ==
    IF log # <<>> /\ Head(log).Role = "system"
    THEN <<Head(log)>> \o SystemPrefix(Tail(log))
    ELSE <<>>

\* CreateReactAgent with a store an earlier session may have written to: the
\* system prompt appended when there are tools, then the history of the
\* conversation when the store has a non-empty one to load.
SessionInitWith(streaming) ==
    /\ currentUserInput = <<>>
    /\ collection = <<>>
    /\ saved = [id \in ConversationIDs |-> <<>>]
    /\ logAtCall = <<>>
    /\ runs = [r \in RunIDs |-> NotStarted]
    /\ maxIter \in 1..MaxIter
    /\ tools = <<XName>>
    /\ debug = FALSE
    /\ llmStreams \in streaming
    /\ \E c \in SessionConfigs : mem = c[1] /\ conversationID = c[2]
    /\ store = [id \in StoreKeys |->
                    IF mem = "buffer" /\ id = "c1" THEN PriorHistory ELSE <<>>]
    /\ \E l \in {LoadMessages(store, mem, conversationID)} :
           messages =
               (IF Len(tools) > 0 THEN <<Msg("system", SystemPrompt)>> ELSE <<>>)
                   \o (IF mem # "nil" /\ conversationID # "" /\ ~l.err
                           /\ Len(l.history) > 0
                       THEN l.history
                       ELSE <<>>)
    /\ mode = "none"
    /\ pc = "idle"
    /\ iterations = 0
    /\ result = <<>>
    /\ err = "nil"
    /\ panicked = FALSE
    /\ ch = <<>>
    /\ closed = FALSE
    /\ stream = [reasoning |-> FALSE, rest |-> <<>>]
    /\ fullContent = <<>>
    /\ buffer = <<>>
    /\ toolJSONStartFound = FALSE
    /\ llmCalls = 0
    /\ toolCalls = <<>>
    /\ responses = <<>>
    /\ forwarded = <<>>
    /\ markerSplits = 0
    /\ ctx = "background"
    /\ sentAtCancel = 0

\* The sessions whose llm is no ChatStreamer.
SessionInit == SessionInitWith({FALSE})

\* No run is in progress: the session's methods are called between runs.
Quiet == pc \in {"idle", "done"}

\* The mutant of SetConversationID that keeps the log and adds the history.
SetConversationIDKeepsLog(id) ==
    /\ Quiet
    /\ conversationID' = id
    /\ \E l \in {LoadMessages(store, mem, id)} :
           messages' = IF mem # "nil" /\ ~l.err THEN messages \o l.history
                       ELSE messages
    /\ UNCHANGED <<context, milvus, logAtCall, runs, maxIter, tools, debug, llmStreams, mem,
                   store, mode, pc, iterations, result, err, panicked, ch, closed,
                   streamLocals, llmCalls, toolCalls, responses>>

\* The mutant of SetConversationID that leaves the log as it is when the load
\* fails.
SetConversationIDKeepsLogOnError(id) ==
    /\ Quiet
    /\ conversationID' = id
    /\ \E systemMessages \in {SystemPrefix(messages)},
          l \in {LoadMessages(store, mem, id)} :
           messages' = IF mem # "nil"
                       THEN IF ~l.err THEN systemMessages \o l.history
                            ELSE messages
                       ELSE systemMessages
    /\ UNCHANGED <<context, milvus, logAtCall, runs, maxIter, tools, debug, llmStreams, mem,
                   store, mode, pc, iterations, result, err, panicked, ch, closed,
                   streamLocals, llmCalls, toolCalls, responses>>

\* SetConversationID(id): the leading system messages are kept, the id is
\* set, and the history of id follows them when there is a store and its
\* load succeeds.
SetConversationID(id) ==
    /\ Quiet
    /\ conversationID' = id
    /\ \E systemMessages \in {SystemPrefix(messages)},
          l \in {LoadMessages(store, mem, id)} :
           messages' = IF mem # "nil"
                       THEN IF ~l.err THEN systemMessages \o l.history
                            ELSE systemMessages
                       ELSE systemMessages
    /\ UNCHANGED <<context, milvus, logAtCall, runs, maxIter, tools, debug, llmStreams, mem,
                   store, mode, pc, iterations, result, err, panicked, ch, closed,
                   streamLocals, llmCalls, toolCalls, responses>>

\* WithPrompt(prompt): a system message is appended to the log.  (The custom
\* prompt is given once.)
WithPrompt(prompt) ==
    /\ Quiet
    /\ \A i \in 1..Len(messages) : messages[i] # Msg("system", prompt)
    /\ messages' = Append(messages, Msg("system", prompt))
    /\ UNCHANGED <<session, context, milvus, logAtCall, runs, store, mode, pc, iterations,
                   result, err, panicked, ch, closed, streamLocals, llmCalls, toolCalls,
                   responses>>

\* BufferMemory.ClearMessages(ctx, conversationID): the conversation is
\* deleted; the failing store returns an error and keeps what it has.
ClearMessages(st, kind, id) ==
    IF kind = "buffer" THEN [st EXCEPT ![getConversationID(id)] = <<>>] ELSE st

\* ClearHistory(): with a store and a conversation id, the conversation is
\* cleared in the store.  a.messages is not touched.
ClearHistory ==
    /\ Quiet
    /\ store' = IF mem # "nil" /\ conversationID # ""
                THEN ClearMessages(store, mem, conversationID)
                ELSE store
    /\ UNCHANGED <<session, context, milvus, logAtCall, runs, messages, mode, pc,
                   iterations, result, err, panicked, ch, closed, streamLocals, llmCalls,
                   toolCalls, responses>>

\* The synchronous runs of the sessions made over each registry.
LookupInit ==
    Created({<<"buffer", "">>}, Registries) /\ ctx = "background" /\ sentAtCancel = 0

LookupNext ==
    \/ Run
    \/ RunIterate
    \/ RunExceeded

LookupSpec == LookupInit /\ [][LookupNext]_vars

(***************************************************************************)
(* The Milvus store: sessions with different conversation ids save their   *)
(* messages, one per call, as a run does                                   *)
(***************************************************************************)

\* The turns of a conversation that the sessions of the model save.
MaxTurns == 2

\* The text of a digit.
DigitOf(n) == <<"0", "1", "2", "3", "4", "5", "6", "7", "8", "9">>[n + 1]

\* The message a session saves next for its conversation: the user message
\* of a turn, then the assistant message of the turn.
NextToSave(id) ==
    IF Len(saved[id]) % 2 = 0
    THEN Msg("user", <<"q", DigitOf(Len(saved[id]) \div 2), "@", id>>)
    ELSE Msg("assistant", <<"a", DigitOf(Len(saved[id]) \div 2), "@", id>>)

\* A row of the collection.
Row(convID, userInput, llmOutput) ==
    [conversation_id |-> convID, user_input |-> userInput, llm_output |-> llmOutput]

\* MilvusMemory.SaveMessages(ctx, conversationID, [msg]): a user message is
\* kept in the package variable currentUserInput; an assistant message is
\* paired with what currentUserInput holds, which is then reset, and the
\* pair is inserted under the conversation id unless the embedding or the
\* insertion fails.
MilvusSaveMessages(convID, msg) ==
    /\ saved' = [saved EXCEPT ![convID] = Append(@, msg)]
    /\ currentUserInput' =
           IF msg.Role = "user" THEN msg.Content
           ELSE IF msg.Role = "assistant" /\ currentUserInput # <<>>
                    /\ msg.Content # <<>>
                THEN <<>>
           ELSE currentUserInput
    /\ \E inserted \in BOOLEAN :
           collection' =
               IF msg.Role = "assistant" /\ currentUserInput # <<>>
                   /\ msg.Content # <<>> /\ inserted
               THEN Append(collection,
                           Row(getConversationID(convID), currentUserInput,
                               msg.Content))
               ELSE collection

\* The session of conversation id saves its next message.
SessionSaves(id) ==
    /\ Len(saved[id]) < 2 * MaxTurns
    /\ MilvusSaveMessages(id, NextToSave(id))
    /\ UNCHANGED <<session, context, logAtCall, runs, messages, store, mode, pc, iterations,
                   result, err, panicked, ch, closed, streamLocals, llmCalls, toolCalls,
                   responses>>

\* Two sessions over one MilvusMemory, before their first save.
MilvusInit ==
    /\ Created({<<"milvus", "c1">>}, {<<XName>>})
    /\ maxIter = 1
    /\ ~debug
    /\ ~llmStreams
    /\ ctx = "background"
    /\ sentAtCancel = 0

MilvusNext == \E id \in ConversationIDs : SessionSaves(id)

MilvusSpec == MilvusInit /\ [][MilvusNext]_vars

\* The caller cancels the context of a streaming run that has not returned.
Cancel ==
    /\ mode = "stream"
    /\ pc \in {"loop", "recv"}
    /\ ctx = "live"
    /\ ctx' = "cancelled"
    /\ sentAtCancel' = Len(ch)
    /\ UNCHANGED <<session, milvus, logAtCall, runs, messages, store, mode, pc, iterations,
                   result, err, panicked, ch, closed, streamLocals, llmCalls, toolCalls,
                   responses>>

\* The sessions whose streaming run is given a context the caller can cancel.
CancelInit == InitWith({<<"buffer", "">>}) /\ ctx = "live" /\ sentAtCancel = 0

CancelNext ==
    \/ StreamWithContext
    \/ StreamFallback
    \/ StreamOpen
    \/ StreamRecvError
    \/ StreamRecvReasoning
    \/ StreamRecvContent
    \/ StreamRecvEOF
    \/ StreamExceeded
    \/ StreamClose
    \/ Cancel

CancelSpec == CancelInit /\ [][CancelNext]_vars

(***************************************************************************)
(* The entry points Run and Stream of a session that may hold history      *)
(***************************************************************************)

\* a.LoadMessages(latestUserInput): with a store and a conversation id the
\* log is emptied and the non-empty history of a successful load appended;
\* else the log is left as it is.
AgentLoadMessages(log, st, kind, id) ==
    IF kind # "nil" /\ id # ""
    THEN LET l == LoadMessages(st, kind, id)
         IN  IF ~l.err /\ Len(l.history) > 0 THEN l.history ELSE <<>>
    ELSE log

\* Stream(message): a.LoadMessages(message), then StreamWithContext(a.ctx,
\* message): the channel made, the goroutine started, the user message
\* appended and saved.
Stream ==
    /\ pc = "idle"
    /\ logAtCall' = messages
    /\ \E log \in {AgentLoadMessages(messages, store, mem, conversationID)} :
       \E st \in {AppendAndSave([Here EXCEPT !.messages = log], Msg("user", UserInput))} :
           /\ messages' = st.messages
           /\ store' = st.store
    /\ mode' = "stream"
    /\ pc' = "loop"
    /\ iterations' = 0
    /\ ch' = <<>>
    /\ UNCHANGED <<session, context, milvus, runs, result, err, panicked, closed,
                   streamLocals, llmCalls, toolCalls, responses>>

\* The sessions whose llm is a ChatStreamer, made over each store.
EntryInit == SessionInitWith({TRUE})

\* One run of a session, started by Run or by Stream.
EntryNext ==
    \/ Run
    \/ RunIterate
    \/ RunExceeded
    \/ Stream
    \/ StreamOpen
    \/ StreamRecvError
    \/ StreamRecvReasoning
    \/ StreamRecvContent
    \/ StreamRecvEOF
    \/ StreamExceeded
    \/ StreamClose

EntrySpec == EntryInit /\ [][EntryNext]_vars

(***************************************************************************)
(* Two runs at once on one session.  a.messages is read and written with   *)
(* no lock: an append is a read of the slice followed by a write of the    *)
(* slice with the message added, and the other run may act in between (its *)
(* append is then lost, or it overwrites this one).                        *)
(***************************************************************************)

\* The message the caller of run r sends.
InputOf(r) == <<"q", DigitOf(r)>>

\* The plain answer the provider gives to run r.
AnswerTo(r) == <<"a", DigitOf(r)>>

\* What the provider returns to a call of run r.
ResponsesTo(r) == {AnswerTo(r), ToolCallX}

\* The other variables are those of the single run; they stay as created.
SingleRun ==
    <<session, context, milvus, logAtCall, store, mode, pc, iterations, result, err,
      panicked, ch, closed, streamLocals, llmCalls, toolCalls, responses>>

\* a.messages = append(a.messages, msg) begins: msg is to be appended, and
\* the run goes on at `after` once it is.
Appending(run, msg, after) ==
    [run EXCEPT !.pc = "append", !.pending = msg, !.after = after, !.reading = FALSE]

\* RunWithContext / the goroutine of StreamWithContext starts: the user
\* message is made.
Invoke(r) ==
    /\ runs[r].pc = "idle"
    /\ runs' = [runs EXCEPT ![r] = Appending(@, Msg("user", InputOf(r)), "loop")]
    /\ UNCHANGED <<messages, SingleRun>>

\* The append reads a.messages.
ReadLog(r) ==
    /\ runs[r].pc = "append"
    /\ ~runs[r].reading
    /\ runs' = [runs EXCEPT ![r].reading = TRUE, ![r].held = messages]
    /\ UNCHANGED <<messages, SingleRun>>

\* The append writes a.messages: what it read, with the message added.
WriteLog(r) ==
    /\ runs[r].pc = "append"
    /\ runs[r].reading
    /\ messages' = Append(runs[r].held, runs[r].pending)
    /\ runs' = [runs EXCEPT ![r].pc = runs[r].after, ![r].reading = FALSE,
                            ![r].held = <<>>]
    /\ UNCHANGED SingleRun

\* The mutant of ChatWith that calls the provider with the messages of the
\* run alone.
ChatWithOwnMessages(r, log) ==
    SelectSeq(log, LAMBDA m : m.Role = "system" \/ m.Content \in {InputOf(r), AnswerTo(r)})

\* The log a.llm.Chat(ctx, a.messages) of run r is called with.
ChatWith(r, log) == log

\* One iteration of the loop up to its append: iterations++, the provider
\* called with a.messages, the assistant message made.
Chat(r) ==
    /\ runs[r].pc = "loop"
    /\ runs[r].iterations < maxIter
    /\ \E output \in ResponsesTo(r) :
           runs' = [runs EXCEPT
                       ![r] = [Appending(@, Msg("assistant", output), "parse")
                                   EXCEPT !.iterations = NextIteration(@),
                                          !.calledWith = ChatWith(r, messages)]]
    /\ UNCHANGED <<messages, SingleRun>>

\* parseLLMResponse on the response just appended: a final answer or a
\* failed call ends the run; a call that succeeded makes the tool message.
Parse(r) ==
    /\ runs[r].pc = "parse"
    /\ \E d \in {Decoded(runs[r].pending.Content, FALSE)}, outcome \in ToolOutcomes :
           runs' = [runs EXCEPT
                       ![r] = IF d.kind = "call" /\ findTool(tools, d.resp.Tool) # 0
                                 /\ outcome = "ok"
                              THEN Appending(@, Msg("user", ToolMessage(d.resp.Tool,
                                                                        ToolResult)),
                                             "loop")
                              ELSE [@ EXCEPT !.pc = "done"]]
    /\ UNCHANGED <<messages, SingleRun>>

\* The loop ran out.
Exceeded(r) ==
    /\ runs[r].pc = "loop"
    /\ ~(runs[r].iterations < maxIter)
    /\ runs' = [runs EXCEPT ![r].pc = "done"]
    /\ UNCHANGED <<messages, SingleRun>>

\* The largest iteration bound of a session on which two runs execute.
MaxRacingIter == 1

\* A session without a store, on which both runs are invoked.
ConcurrentInit ==
    /\ Created({<<"nil", "">>}, {<<XName>>})
    /\ maxIter <= MaxRacingIter
    /\ ~debug
    /\ ~llmStreams
    /\ ctx = "background"
    /\ sentAtCancel = 0

ConcurrentNext ==
    \E r \in RunIDs :
        \/ Invoke(r)
        \/ ReadLog(r)
        \/ WriteLog(r)
        \/ Chat(r)
        \/ Parse(r)
        \/ Exceeded(r)

ConcurrentSpec == ConcurrentInit /\ [][ConcurrentNext]_vars

SessionNext ==
    \/ Run
    \/ RunIterate
    \/ RunExceeded
    \/ \E id \in ConversationIDs : SetConversationID(id)
    \/ WithPrompt(CustomPrompt)
    \/ ClearHistory

SessionSpec == SessionInit /\ [][SessionNext]_vars

(***************************************************************************)
(* Properties                                                              *)
(***************************************************************************)

\* The run is over: RunWithContext has returned, or the goroutine of
\* StreamWithContext has.
Ended == pc \in {"done", "returned", "closed"}

\* A chunk with Error set or Done true.
IsTerminal(c) == c.Done \/ c.Error # "nil"

\* The i-th response of the run asked for a tool that was called.
Dispatched(i) == \E k \in 1..Len(toolCalls) : toolCalls[k].response = i

\* The i-th response of the run made the tool x be called with empty args.
DispatchedX(i) ==
    \E k \in 1..Len(toolCalls) :
        /\ toolCalls[k].response = i
        /\ toolCalls[k].tool = XName
        /\ toolCalls[k].args = <<>>
        /\ ~toolCalls[k].argsNil

\* The i-th response, and no later one, ended the run with the answer res.
AnsweredWith(i, res) ==
    /\ Ended
    /\ i = Len(responses)
    /\ err = "nil"
    /\ result = res
    /\ ~Dispatched(i)

RECURSIVE Narration(_)
\* The narration of the chunks q, joined.
Narration(q) ==
    IF q = <<>> THEN <<>>
    ELSE (IF q[1].src = "narration" THEN q[1].Content ELSE <<>>) \o Narration(Tail(q))

\* What follows the call of x in a response that holds one.
CallFollowedBy(r) == From(r, Index(r, ToolCallX) + Len(ToolCallX))

\* The response holds the call of x, and narration after it.
HasTrailingNarration(r) == Index(r, ToolCallX) # -1 /\ CallFollowedBy(r) # <<>>

\* The text holds a closing brace or a closing bracket.
HoldsCloser(text) == \E k \in 1..Len(text) : text[k] \in {"}", "]"}

\* The response holds the codec's marker and its repaired text does not
\* decode.
FailsToDecode(r) == Index(r, CallToolMarker) # -1 /\ Decoded(r, FALSE).resp.err

IsToolResult(m) == m.Role = "user" /\ m.Content = ToolMessage(XName, ToolResult)

NonEmpty(text) == text # <<>>

\* How many assistant messages the responses of the run have been appended
\* as: the streaming loop hands no empty response on.
AssistantMessages ==
    IF mode = "stream" /\ llmStreams THEN Len(SelectSeq(responses, NonEmpty))
    ELSE Len(responses)

\* C1: the provider is never called more than maxIter times in a run; and
\* with maxIter = 1, a run whose first response calls a tool (the call
\* succeeding) ends with "max iterations exceeded" after exactly one call
\* of the provider.
C1_IterationBound ==
    /\ llmCalls <= maxIter
    /\ (/\ maxIter = 1
        /\ Ended
        /\ Len(toolCalls) >= 1
        /\ toolCalls[1].response = 1
        /\ toolCalls[1].outcome = "ok")
       => (err = "max iterations exceeded" /\ llmCalls = 1)

\* C2: of the chunks of a streaming run only the last is terminal (Error
\* set or Done true), and when the channel is closed there is a last chunk
\* and it is terminal.
C2_OneTerminalChunk ==
    /\ \A i \in 1..(Len(ch) - 1) : ~IsTerminal(ch[i])
    /\ closed => (ch # <<>> /\ IsTerminal(ch[Len(ch)]))

\* C3: every run that starts terminates, whatever the provider answers:
\* RunWithContext returns, StreamWithContext closes its channel.
C3_RunsTerminate ==
    (mode # "none") ~> ((mode = "run" /\ pc = "done") \/ (mode = "stream" /\ closed))

\* C3, witness: a streaming run whose every response was a tool call or
\* empty has used all its iterations and closed the channel.
C3_ClosedAfterToolCallsOnly ==
    /\ mode = "stream"
    /\ closed
    /\ ~panicked
    /\ maxIter = MaxIter
    /\ llmCalls = maxIter
    /\ Len(responses) = maxIter
    /\ \A i \in 1..Len(responses) : responses[i] = <<>> \/ Dispatched(i)
    /\ \E i \in 1..Len(responses) : responses[i] = <<>>
    /\ \E i \in 1..Len(responses) : Dispatched(i)

\* C4: a response without the flag `{"action"` ends the run with the
\* response itself as the answer, no error, and no tool called.
C4_PlainResponseIsAnswer ==
    \A i \in 1..Len(responses) :
        Index(responses[i], Flag) = -1 => AnsweredWith(i, responses[i])

\* C5, as stated: a response that holds the call of x with empty args and
\* any narration after it has x called with empty args.
C5_TrailingNarrationRecovered ==
    \A i \in 1..Len(responses) : HasTrailingNarration(responses[i]) => DispatchedX(i)

\* C5, amended: a response that holds the call of x with empty args and,
\* after it, narration without a closing brace or bracket has x called with
\* empty args.
C5_CloserFreeNarrationRecovered ==
    \A i \in 1..Len(responses) :
        (HasTrailingNarration(responses[i]) /\ ~HoldsCloser(CallFollowedBy(responses[i])))
            => DispatchedX(i)

\* C5, witness: the call of x followed by " some trailing text" was
\* streamed and x called with empty args.
C5_TrailingTextDispatched ==
    /\ mode = "stream"
    /\ llmStreams
    /\ responses # <<>>
    /\ responses[1] = RespCallTrailing
    /\ DispatchedX(1)

\* C6: a response that holds the marker and does not decode ends the run,
\* in either mode, without error, with the whole response as the answer and
\* no tool called.
C6_DecodeFailureIsAnswer ==
    \A i \in 1..Len(responses) :
        FailsToDecode(responses[i]) => AnsweredWith(i, responses[i])

\* C6, witness: a streaming run has ended on the marker followed by text
\* that is no JSON, as the second response of the run.
C6_GarbageAnswered ==
    /\ mode = "stream"
    /\ closed
    /\ Len(responses) = 2
    /\ responses[2] = RespGarbage
    /\ AnsweredWith(2, RespGarbage)

\* C7: at every point of the streaming of a response, the narration sent
\* for it followed by the buffer withheld is the content received so far,
\* and the narration sent is what the caller received.
C7_ForwardedPlusWithheld ==
    /\ forwarded \o buffer = fullContent
    /\ (pc = "recv" /\ responses = <<>>) => Narration(ch) = forwarded

\* C7, witness: a response with narration before its action has been
\* received in deltas that cut the flag, the narration sent and the action
\* withheld.
C7_NarrationSentActionWithheld ==
    /\ pc = "recv"
    /\ ~debug
    /\ stream.rest = <<>>
    /\ fullContent = RespNarratedCall
    /\ markerSplits >= 1
    /\ forwarded # <<>>
    /\ buffer = ToolCallX

\* C8: outside debug mode, when one delta boundary falls inside the flag of
\* a response, the flag is found by the time the response is complete, and
\* the narration sent never reaches more than len(flag) - 1 bytes beyond
\* the offset at which the flag starts.
C8_SplitFlagFound ==
    (mode = "stream" /\ pc = "recv" /\ ~debug /\ markerSplits = 1)
        => /\ stream.rest = <<>> => toolJSONStartFound
           /\ ByteLen(forwarded)
                  <= ByteLen(Slice(fullContent \o stream.rest, 0,
                                   Index(fullContent \o stream.rest, Flag)))
                         + (ByteLen(Flag) - 1)

\* C9: outside debug mode, when a streamed response ends the run with the
\* Done chunk, the narration sent for it is the whole response.
C9_AnswerStreamedBeforeDone ==
    (mode = "stream" /\ llmStreams /\ ~debug /\ ch # <<>> /\ ch[Len(ch)].Done)
        => forwarded = responses[Len(responses)]

\* C10: a failed tool call is the last of the run and ends it with the
\* tool error; the log then ends with the assistant message that asked for
\* the call, still starts with the system prompt and the user message, and
\* holds as many tool results as tool calls succeeded.
C10_ToolFailureLeavesLog ==
    \A k \in 1..Len(toolCalls) :
        toolCalls[k].outcome = "fail"
            => /\ k = Len(toolCalls)
               /\ Ended
               /\ err = "tool call failed"
               /\ toolCalls[k].response = Len(responses)
               /\ messages[1] = Msg("system", SystemPrompt)
               /\ messages[2] = Msg("user", UserInput)
               /\ messages[Len(messages)] = Msg("assistant", responses[Len(responses)])
               /\ Len(SelectSeq(messages, IsToolResult)) = k - 1
               /\ Len(messages) = 2 + AssistantMessages + (k - 1)

\* C10, witness: a streaming run whose first tool call succeeded has ended
\* on the failure of its second.
C10_SecondCallFailed ==
    /\ mode = "stream"
    /\ closed
    /\ Len(toolCalls) = 2
    /\ toolCalls[1].outcome = "ok"
    /\ toolCalls[2].outcome = "fail"
    /\ err = "tool call failed"

\* The errors of a failed call of the provider.
ModelFailures ==
    {"failed to get LLM response", "no response from LLM", "failed to create stream",
     "stream error"}

\* The errors of a failed tool dispatch.
DispatchFailures ==
    {"tool name is required for call_tool action", "tool not found", "tool call failed"}

\* C11: once a run has the error of a failed provider call or of a failed
\* tool dispatch, it is over, and no step calls the provider or a tool
\* again.
C11_FailFast ==
    [][(err \in ModelFailures \cup DispatchFailures)
           => (Ended /\ llmCalls' = llmCalls /\ toolCalls' = toolCalls)]_vars

\* C11, witness: a run with an iteration left has ended on the failure of
\* its first tool call, after one call of the provider.
C11_EndedWithIterationLeft ==
    /\ Ended
    /\ err = "tool call failed"
    /\ maxIter = 2
    /\ llmCalls = 1
    /\ Len(toolCalls) = 1

\* The messages response i of the run left in the log: the assistant message
\* (a streamed response only when it is not empty), then the tool-result
\* message when the call it asked for succeeded.
LoggedFor(i) ==
    (IF mode = "stream" /\ llmStreams /\ responses[i] = <<>>
     THEN <<>>
     ELSE <<Msg("assistant", responses[i])>>)
        \o (IF \E k \in 1..Len(toolCalls) :
                   toolCalls[k].response = i /\ toolCalls[k].outcome = "ok"
            THEN <<Msg("user", ToolMessage(XName, ToolResult))>>
            ELSE <<>>)

RECURSIVE LoggedUpTo(_)

LoggedUpTo(n) == IF n = 0 THEN <<>> ELSE LoggedUpTo(n - 1) \o LoggedFor(n)

\* The log as the provider's responses and the tools' outcomes alone make it.
LogOfCalls ==
    <<Msg("system", SystemPrompt)>>
        \o (IF mode = "none" THEN <<>> ELSE <<Msg("user", UserInput)>>)
        \o LoggedUpTo(Len(responses))

\* The errors a run ends with: none of them is the error of a save.
RunErrors ==
    ModelFailures \cup DispatchFailures
        \cup {"nil", "max iterations exceeded", "nil pointer dereference"}

\* C12: whether the store saves every message or fails every save, the log is
\* what the provider's responses and the tools' outcomes alone make it, the
\* error of the run is never the error of a save, a run that ended without
\* error returned the answer decoded from its last response, and a streaming
\* run that returned sent the terminal chunk of its error last; the saving
\* store holds every message of the run and the failing one none.
C12_SaveFailuresUnseen ==
    /\ messages = LogOfCalls
    /\ err \in RunErrors
    /\ store["c1"] = IF mem = "failing" THEN <<>> ELSE Tail(messages)
    /\ (Ended /\ err = "nil")
           => result = Decoded(responses[Len(responses)],
                               mode = "stream" /\ llmStreams).result
    /\ (Ended /\ mode = "stream" /\ ~panicked)
           => ch[Len(ch)] = IF err = "nil" THEN DoneChunk ELSE ErrorChunk(err)

\* C12, witness: with the failing store, a run called the tool, logged its
\* result and returned the answer of the second response.
C12_FailingStoreRunAnswered ==
    /\ mem = "failing"
    /\ Ended
    /\ err = "nil"
    /\ Len(toolCalls) = 1
    /\ Len(messages) = 5
    /\ result = RespShort

\* The system messages a log starts with: its longest prefix of system
\* messages.
LeadingSystem(log) ==
    SubSeq(log, 1,
           CHOOSE k \in 0..Len(log) :
               /\ \A i \in 1..k : log[i].Role = "system"
               /\ k = Len(log) \/ log[k + 1].Role # "system")

\* The history a session loads for id: what its store holds for id, nothing
\* without a store or when the load fails.
HistoryLoaded(id) == IF mem = "buffer" THEN store[getConversationID(id)] ELSE <<>>

\* C13: a step of SetConversationID(id) leaves the log as the system messages
\* the log started with followed by the history loaded for id, and nothing
\* else; with nothing loaded, the system messages alone.
C13_SwitchKeepsSystemPrefixAndLoads ==
    [][\A id \in ConversationIDs :
           SetConversationID(id)
               => messages' = LeadingSystem(messages) \o HistoryLoaded(id)]_vars

\* C13, witness: after a run, the switch to the earlier conversation left the
\* system prompt and that conversation's history, and none of the run's
\* messages.
C13_SwitchedAfterRun ==
    /\ pc = "done"
    /\ Len(responses) > 0
    /\ conversationID = "c1"
    /\ messages = <<Msg("system", SystemPrompt)>> \o PriorHistory

\* C14: a step of SetConversationID(id) on a store whose load fails sets the
\* conversation id to id, leaves the log as the system messages it started
\* with, and raises nothing: the error and the place of the session are as
\* before.
C14_FailedLoadStillSwitches ==
    [][\A id \in ConversationIDs :
           (SetConversationID(id) /\ LoadMessages(store, mem, id).err /\ mem # "nil")
               => /\ conversationID' = id
                  /\ messages' = LeadingSystem(messages)
                  /\ err' = err
                  /\ panicked' = panicked
                  /\ pc' = pc]_vars

\* C14, witness: with the failing store, a session that ran was switched to
\* another conversation and holds the system prompt alone.
C14_SwitchedWithFailingStore ==
    /\ mem = "failing"
    /\ pc = "done"
    /\ Len(responses) > 0
    /\ conversationID = "c2"
    /\ messages = <<Msg("system", SystemPrompt)>>

\* C15: no system message of the log comes after a message of another role.
C15_SystemMessagesArePrefix ==
    \A i, j \in 1..Len(messages) :
        (i < j /\ messages[j].Role = "system") => messages[i].Role = "system"

\* A streaming run with a provider that is no ChatStreamer.
FallbackRun == mode = "stream" /\ ~llmStreams

\* C16: a streaming run with a provider that is no ChatStreamer that ended
\* with a final answer sent that answer as one content chunk before its
\* terminal chunk.
C16_FallbackAnswerDelivered ==
    (FallbackRun /\ Ended /\ err = "nil" /\ result # <<>>)
        => /\ ch[Len(ch)].Done
           /\ \E i \in 1..(Len(ch) - 1) :
                  ch[i].Content = result /\ ~IsTerminal(ch[i])

\* C17: a streaming run with a provider that is no ChatStreamer has made one
\* Chat call for each iteration it began, is never receiving from a stream,
\* and has never gone on to the streaming call, which with the nil streamer
\* is the panic of the goroutine.
C17_FallbackNeverStreams ==
    FallbackRun => (llmCalls = iterations /\ pc # "recv" /\ ~panicked)

\* C18: a streaming run whose provider's ChatStream returned an error did not
\* end with that error: it went on with a Chat call.
C18_StreamCreationErrorFallsBack ==
    (mode = "stream" /\ llmStreams /\ Ended) => err # "failed to create stream"

\* C19: in a streaming run, every chunk that carries a decoded call is
\* followed by a chunk that carries the result or the error payload of the
\* call, and that one by a delimiter chunk, with no terminal chunk and no
\* output of a later model call up to the delimiter.
C19_CallResultDelimiter ==
    (mode = "stream" /\ pc # "recv")
        => \A i \in 1..Len(ch) :
               ch[i].src = "call"
                   => \E j, k \in (i + 1)..Len(ch) :
                          /\ j < k
                          /\ ch[j].src = "result"
                          /\ ch[k] = Newline
                          /\ \A m \in i..k :
                                 /\ ~IsTerminal(ch[m])
                                 /\ ch[m].src \notin {"narration", "reasoning"}

\* C20: once the context of a streaming run is cancelled, at most one more
\* chunk is sent, and that chunk carries an error.
C20_OneChunkAfterCancel ==
    Cancelled
        => /\ Len(ch) <= sentAtCancel + 1
           /\ Len(ch) = sentAtCancel + 1 => ch[Len(ch)].Error # "nil"

\* The messages of a log that are not system messages, in order.
NonSystem(log) == SelectSeq(log, LAMBDA m : m.Role # "system")

\* C21: with a store and a conversation id, the store holds for that id the
\* non-system messages of the log, each once and in the order of the log,
\* and nothing for any other id; without a conversation id it holds nothing.
C21_AppendsMirrored ==
    store = [id \in StoreKeys |->
                 IF mem = "buffer" /\ conversationID # "" /\ id = conversationID
                 THEN NonSystem(messages)
                 ELSE <<>>]

\* C21, witness: a streaming run with a conversation id ended after a tool
\* call and an answer, and the store holds its four messages.
C21_FourMessagesSaved ==
    /\ mode = "stream"
    /\ Ended
    /\ conversationID = "c1"
    /\ Len(toolCalls) = 1
    /\ Len(store["c1"]) = 4
    /\ store["c1"][3] = Msg("user", ToolMessage(XName, ToolResult))

\* The message log holds a message of the earlier conversation.
HoldsEarlierMessage == \E i \in 1..Len(messages) : messages[i] = PriorHistory[1]

\* The conversation "c1" was cleared before the run: the store holds for it
\* messages of the run and none of the earlier conversation.  (A run saves
\* its user message before its first model call, and only ClearHistory takes
\* a message out of the store.)
ClearedBeforeRun ==
    /\ mem = "buffer"
    /\ conversationID = "c1"
    /\ store["c1"] # <<>>
    /\ \A i \in 1..Len(store["c1"]) : store["c1"][i] # PriorHistory[1]

\* C22: after ClearHistory the store holds nothing of the earlier
\* conversation, and the log which the model calls of the next run are given
\* (a.messages) holds no message from before the clear.
C22_ClearedHistoryNotSent ==
    (ClearedBeforeRun /\ llmCalls > 0) => ~HoldsEarlierMessage

\* The places of the registry whose tool has exactly that name.
NamedExactly(name) == {i \in 1..Len(tools) : tools[i] = name}

\* C23: every tool that was invoked is the first registered tool whose name
\* is exactly the name the response asked for, and a run ended with "tool
\* not found" exactly when its last response asked for a name that no
\* registered tool has.
C23_FirstExactMatch ==
    /\ \A k \in 1..Len(toolCalls) :
           /\ toolCalls[k].registered \in NamedExactly(toolCalls[k].tool)
           /\ \A i \in NamedExactly(toolCalls[k].tool) : toolCalls[k].registered <= i
    /\ Ended
           => \E d \in {IF responses = <<>> THEN Decoded(<<>>, FALSE)
                        ELSE Decoded(responses[Len(responses)], FALSE)} :
                  (err = "tool not found")
                      <=> /\ responses # <<>>
                          /\ d.kind \notin {"final", "noname"}
                          /\ NamedExactly(d.resp.Tool) = {}

\* C23, witness: with x registered after X, the call of x went to the second
\* tool.
C23_SecondToolInvoked ==
    /\ tools = <<UpperXName, XName>>
    /\ Len(toolCalls) = 1
    /\ toolCalls[1].tool = XName
    /\ toolCalls[1].registered = 2

\* Response i of the run decoded without error to the action call_tool with
\* an empty tool name.
NamelessCall(i) ==
    \E d \in {Decoded(responses[i], mode = "stream" /\ llmStreams)} :
        ~d.resp.err /\ d.resp.Action = CallToolName /\ d.resp.Tool = <<>>

\* C24: a response that decodes to call_tool with an empty tool name is the
\* last of its run: the run has ended with the error "tool name is required
\* for call_tool action", no tool was invoked for the response, and the last
\* message of the log is the assistant message of the response, not a tool
\* result.
C24_NamelessCallIsError ==
    \A i \in 1..Len(responses) :
        NamelessCall(i)
            => /\ i = Len(responses)
               /\ Ended
               /\ err = "tool name is required for call_tool action"
               /\ result = <<>>
               /\ ~Dispatched(i)
               /\ messages[Len(messages)] = Msg("assistant", responses[i])

\* C24, witness: a streaming run called the tool and then ended on a second
\* response that names no tool.
C24_NamelessAfterCall ==
    /\ mode = "stream"
    /\ llmStreams
    /\ Len(responses) = 2
    /\ NamelessCall(2)
    /\ Len(toolCalls) = 1
    /\ closed

\* The call response i asked for was made and succeeded.
DispatchedOk(i) ==
    \E k \in 1..Len(toolCalls) : toolCalls[k].response = i /\ toolCalls[k].outcome = "ok"

\* What the synchronous run appends for response i: the assistant message,
\* then the tool-result message when the call succeeded.
SyncLoggedFor(i) ==
    <<Msg("assistant", responses[i])>>
        \o (IF DispatchedOk(i) THEN <<Msg("user", ToolMessage(XName, ToolResult))>>
            ELSE <<>>)

RECURSIVE SyncLoggedUpTo(_)

SyncLoggedUpTo(n) == IF n = 0 THEN <<>> ELSE SyncLoggedUpTo(n - 1) \o SyncLoggedFor(n)

\* The log the synchronous run leaves for the responses and tool outcomes of
\* the run.
SyncLog ==
    <<Msg("system", SystemPrompt)>>
        \o (IF mode = "none" THEN <<>> ELSE <<Msg("user", UserInput)>>)
        \o SyncLoggedUpTo(Len(responses))

\* The run is where the synchronous run is after the same responses and tool
\* outcomes: every response before the last led to a successful tool call
\* (any other response ends the synchronous run), the log is the synchronous
\* one, and a run that ended without error returned what the last response
\* decodes to.
AsSynchronous ==
    /\ \A i \in 1..(Len(responses) - 1) : DispatchedOk(i)
    /\ messages = SyncLog
    /\ ~panicked
    /\ (Ended /\ err = "nil")
           => /\ responses # <<>>
              /\ result = Decoded(responses[Len(responses)], FALSE).result

\* C25: a streaming run is, after the same complete responses and tool
\* outcomes, where the synchronous run is.
C25_StreamRunsAsSync == (mode = "stream" /\ pc # "recv") => AsSynchronous

\* The content of the latest user message among the first n messages saved
\* for id; empty when there is none.
LatestUserInput(id, n) ==
    LET users == {p \in 1..n : saved[id][p].Role = "user"}
    IN  IF users = {} THEN <<>>
        ELSE saved[id][CHOOSE p \in users : \A q \in users : q <= p].Content

\* C26: every row of the collection holds, under its conversation id, an
\* assistant message saved for that id together with the latest user message
\* saved for that id before it.
C26_PairsWithinConversation ==
    \A r \in 1..Len(collection) :
        \E p \in 1..Len(saved[collection[r].conversation_id]) :
            /\ saved[collection[r].conversation_id][p] =
                   Msg("assistant", collection[r].llm_output)
            /\ collection[r].user_input =
                   LatestUserInput(collection[r].conversation_id, p)

\* C27: when the stream of a response has ended, by io.EOF or by an error of
\* the receive, the content accumulated from it is in the log as an
\* assistant message.
C27_StreamEndHandsOver ==
    (mode = "stream" /\ llmStreams /\ pc # "recv" /\ fullContent # <<>>)
        => \E i \in 1..Len(messages) : messages[i] = Msg("assistant", fullContent)

\* The last n characters of a text; all of it when it is shorter.
LastChars(text, n) == From(text, Max(0, Len(text) - n))

\* A response is being received without debug mode and its marker has not
\* been found.
Searching == mode = "stream" /\ pc = "recv" /\ ~debug /\ ~toolJSONStartFound

\* C28, as the code has it: while the marker has not been found, the
\* withheld buffer is at most markerLength characters long after each delta
\* and, once narration has been released, holds exactly the last
\* markerLength characters received.
C28_WindowIsMarkerLength ==
    Searching
        => /\ RuneLen(buffer) <= RuneLen(Flag)
           /\ forwarded \o buffer = fullContent
           /\ forwarded # <<>> => buffer = LastChars(fullContent, RuneLen(Flag))

\* C28, as claimed: once narration has been released, the buffer holds
\* exactly the last markerLength - 1 characters received.
C28_WindowIsMarkerLengthLessOne ==
    Searching
        => /\ RuneLen(buffer) <= RuneLen(Flag)
           /\ forwarded # <<>> => buffer = LastChars(fullContent, RuneLen(Flag) - 1)

\* C28, witness: with a three-byte character among them, the buffer holds
\* the last nine characters of a longer text, the rest released.
C28_SlidWithWideCharacter ==
    /\ Searching
    /\ forwarded # <<>>
    /\ RuneLen(buffer) = RuneLen(Flag)
    /\ ByteLen(buffer) > RuneLen(buffer)
    /\ stream.rest # <<>>

\* C29: once the flag has been found in a response, no step of the receipt
\* of that response, neither a later content delta nor the end of the
\* stream, sends narration to the caller.
C29_NothingForwardedAfterMarker ==
    [][(pc = "recv" /\ toolJSONStartFound)
         => /\ forwarded' = forwarded
            /\ Narration(ch') = Narration(ch)]_vars

\* C29, witness: a call followed by text has been received to its end, the
\* flag found at its start, and the text after the call withheld with it.
C29_TrailingTextWithheld ==
    /\ pc = "recv"
    /\ ~debug
    /\ toolJSONStartFound
    /\ stream.rest = <<>>
    /\ markerSplits = 0
    /\ Index(fullContent, ToolCallX) = 0
    /\ CallFollowedBy(fullContent) # <<>>
    /\ buffer = fullContent
    /\ forwarded = <<>>

\* C30: in debug mode every content delta is sent to the caller as it
\* arrives, as it is and once: after each step of the receipt of a response
\* the narration sent for it is fullContent and nothing is withheld, a step
\* that receives a delta sends that delta, and no other step, the end of the
\* stream included, sends narration.
C30_DebugForwardsVerbatim ==
    [][(debug /\ pc = "recv")
         => /\ forwarded' = fullContent'
            /\ buffer' = <<>>
            /\ IF fullContent' # fullContent
               THEN /\ Slice(fullContent', 0, Len(fullContent)) = fullContent
                    /\ ch' = SendNarration(ch, From(fullContent', Len(fullContent)))
               ELSE Narration(ch') = Narration(ch)]_vars

\* C30, witness: in debug mode a response with narration before its action
\* has been received in deltas that cut the flag, and all of it, action
\* included, has been sent.
C30_ActionSentInDebug ==
    /\ pc = "recv"
    /\ debug
    /\ stream.rest = <<>>
    /\ fullContent = RespNarratedCall
    /\ markerSplits >= 1
    /\ forwarded = RespNarratedCall
    /\ ch # <<>>
    /\ ch[Len(ch)] = ContentChunk("narration", RespNarratedCall)

\* The errors of a provider call that fails or returns no choices.
ProviderCallFailures ==
    {"failed to get LLM response", "no response from LLM", "failed to create stream"}

\* C31, as stated: a run that ended on a failed provider call has the log it
\* was invoked with plus the caller's user message.
C31_LogIsCallTimePlusUserMessage ==
    (Ended /\ err \in ProviderCallFailures)
        => messages = <<Msg("system", SystemPrompt), Msg("user", UserInput)>>

\* C31, amended: the step in which the provider call fails or returns no
\* choices ends the run with that error and appends and saves nothing; the
\* log is then the log of the invocation, the caller's user message, and the
\* assistant and tool-result messages of the earlier iterations of the run.
C31_FailedCallAppendsNothing ==
    [][(err = "nil" /\ err' \in ProviderCallFailures)
         => /\ Ended'
            /\ messages' = messages
            /\ store' = store
            /\ toolCalls' = toolCalls
            /\ responses' = responses
            /\ messages' = <<Msg("system", SystemPrompt), Msg("user", UserInput)>>
                               \o LoggedUpTo(Len(responses))]_vars

\* C31, witness: the second Chat call of a synchronous run failed, after the
\* first response had called the tool: the log holds the messages of the
\* first iteration.
C31_SecondCallFailed ==
    /\ mode = "run"
    /\ Ended
    /\ err = "failed to get LLM response"
    /\ llmCalls = 2
    /\ Len(toolCalls) = 1
    /\ Len(messages) = 4
    /\ messages[3].Role = "assistant"
    /\ IsToolResult(messages[4])

\* C32: in both modes, whenever no response is being received, the log after
\* the system prompt and the caller's user message is, for each response of
\* the run in order, the assistant message holding it, followed at once by
\* the one tool-result message when the call it asked for succeeded; a
\* provider call is made with that log.
C32_EveryResponseLogged ==
    (mode # "none" /\ pc # "recv")
        => /\ messages = SyncLog
           /\ Len(SelectSeq(messages, LAMBDA m : m.Role = "assistant")) = Len(responses)

\* C33: when a run has ended, every message that was in the log when Run or
\* Stream was invoked is in the log at the same position.
C33_LogKeptByRun ==
    Ended => /\ Len(messages) >= Len(logAtCall)
             /\ SubSeq(messages, 1, Len(logAtCall)) = logAtCall

\* The full-object variant decodes the response to a tool call or to a
\* final answer taken from the object's answer.
WholeDecodes(r) ==
    /\ ~DecodeWholeTable[r].resp.err
    /\ DecodeWholeTable[r].resp.Action \in {CallToolName, FinalAnswerName}

\* C34: for every response of a synchronous run that the full-object variant
\* decodes to a tool call or to a final answer, the substring-and-repair
\* variant decodes the same action, tool, arguments and answer, and a run
\* that ended on that response without error returned what the full-object
\* variant returns for it.
C34_SubstringCoversFullDecode ==
    mode = "run" =>
        \A i \in 1..Len(responses) :
            WholeDecodes(responses[i]) =>
                /\ Decoded(responses[i], FALSE).kind = DecodeWholeTable[responses[i]].kind
                /\ Decoded(responses[i], FALSE).resp = DecodeWholeTable[responses[i]].resp
                /\ Decoded(responses[i], FALSE).result
                       = DecodeWholeTable[responses[i]].result
                /\ (Ended /\ err = "nil" /\ i = Len(responses))
                       => result = DecodeWholeTable[responses[i]].result

\* Position of the message with content c in log, 0 when it is not there.
PositionOf(log, c) ==
    IF \E k \in 1..Len(log) : log[k].Content = c
    THEN CHOOSE k \in 1..Len(log) : log[k].Content = c
    ELSE 0

\* C35: nothing separates the runs on one session: a provider call of a run
\* is made with the shared log as it is at that moment, whatever the other
\* run has appended to it, and an append writes back what it read with its
\* message added, whatever the other run wrote in between.
C35_RunsShareLogUnsynchronized ==
    [][\A r \in RunIDs :
          /\ (runs[r].pc = "loop" /\ runs'[r].pc = "append")
                 => runs'[r].calledWith = messages
          /\ (runs[r].pc = "append" /\ runs[r].reading /\ runs'[r].pc # "append")
                 => messages' = Append(runs[r].held, runs[r].pending)]_vars

\* C35, witness: the user message of run 2 lies between the user message and
\* the assistant message of run 1, and the provider call of run 1 was made
\* with the user message of run 2 in its log.
C35_InterleavedLog ==
    /\ PositionOf(messages, InputOf(1)) > 0
    /\ PositionOf(messages, InputOf(1)) < PositionOf(messages, InputOf(2))
    /\ PositionOf(messages, InputOf(2)) < PositionOf(messages, AnswerTo(1))
    /\ PositionOf(runs[1].calledWith, InputOf(2)) > 0

\* C36: between the calls made on a session with a BufferMemory and a
\* non-empty conversation id, the non-system messages of the log are, in
\* order, the messages the store holds for the conversation id.
C36_LogMirrorsStore ==
    (Quiet /\ mem = "buffer" /\ conversationID # "")
        => NonSystem(messages) = store[conversationID]

\* C37: the step in which a stream completes without error (io.EOF) either
\* ends the run with a terminal chunk sent last or calls a tool; it never
\* only goes round the loop.
C37_CompletedStreamEndsOrDispatches ==
    [][(mode = "stream" /\ pc = "recv" /\ Len(responses') > Len(responses))
         => \/ /\ pc' = "returned"
               /\ IsTerminal(ch'[Len(ch')])
            \/ Len(toolCalls') > Len(toolCalls)]_vars

\* The narration a non-debug streaming run sent for its response i, the run
\* having gone on after it: the response up to its first flag, all of it
\* when it holds none.
NarratedFor(i) ==
    IF Index(responses[i], Flag) = -1 THEN responses[i]
    ELSE Slice(responses[i], 0, Index(responses[i], Flag))

RECURSIVE NarratedUpTo(_)

NarratedUpTo(n) == IF n = 0 THEN <<>> ELSE NarratedUpTo(n - 1) \o NarratedFor(n)

\* C38: outside debug mode, while a response is received, the flag counts as
\* found only when this response holds it, the narration sent for it and the
\* buffer are the content of this response alone, and all the narration the
\* caller has received is what was sent for the responses before, none of
\* what was withheld from them, followed by what was sent for this one.
C38_WithholdingPerResponse ==
    (mode = "stream" /\ pc = "recv" /\ ~debug)
        => /\ toolJSONStartFound => Index(fullContent, Flag) # -1
           /\ forwarded \o buffer = fullContent
           /\ Narration(ch) = NarratedUpTo(Len(responses)) \o forwarded

\* C38, witness: after a response whose call was withheld and dispatched,
\* the plain text of the next response has been received and its head sent
\* as narration.
C38_NarrationAfterToolCall ==
    /\ mode = "stream"
    /\ pc = "recv"
    /\ ~debug
    /\ responses = <<RespNarratedCall>>
    /\ Dispatched(1)
    /\ stream.rest = <<>>
    /\ fullContent = RespLong
    /\ forwarded # <<>>
    /\ ~toolJSONStartFound

====
